---- MODULE Spec2Model ----
(***************************************************************************)
(* Registry discovery and image-transfer pipeline of vbalashi/moia.         *)
(*                                                                         *)
(* Texts (image references, error messages, login status lines) are        *)
(* sequences of tokens; a substring test of the code ("x in s") is a        *)
(* contiguous-subsequence test and str.lower() maps every token to its     *)
(* lower-case form.                                                        *)
(*                                                                         *)
(* Specifications:                                                         *)
(*   SpecPush   idol-images-transfer/03_push_images_to_docdirect.py        *)
(*   SpecRetag  docker-nifi/nifi/02_retag_nifi_images.py and               *)
(*              docker-nifi/nifi/retag_nifi_images.py                      *)
(*   SpecNifi   docker-nifi/nifi/03_push_nifi_images.py                    *)
(*   SpecDryRun the push script and the two retag scripts                  *)
(*   SpecExplore idol-images-transfer/00_explore_microfocusidol.py         *)
(***************************************************************************)
EXTENDS Integers, Sequences, FiniteSets, TLC

VARIABLES
    script,         \* the script that is run
    \* ---- 03_push_images_to_docdirect.py -------------------------------
    dry_run,        \* push_image/process_images argument
    token,          \* TRUE when GITLAB_TOKEN is set (a truthy token)
    images,         \* client.images.list(): sequence of images, each a sequence of tags
    single_image,   \* --image argument, <<>> when absent
    run,            \* number of the current invocation of process_images
    idx,            \* position of process_images in the flattened image/tag loop
    pc,             \* position of the control thread
    depth,          \* recursion depth of push_image for the current job
    locals,         \* total_layers, pushed_layers, error_details, needs_auth
    log_file,       \* the transcript of the current run, one entry per written line
    lastRun,        \* what the previous run did: its jobs and whether each was pushed
    calls,          \* Docker client calls made for the current top-level push_image call
    runPushes,      \* client.images.push calls made in the current run
    seen,           \* what the current push attempt has received from the Docker client
    history,        \* what the earlier push attempts of the current job received
    nChunks,        \* stream messages delivered so far (bounded by MaxChunks)
    \* ---- docker-nifi/nifi: 02_retag_nifi_images.py, retag_nifi_images.py
    execute,        \* --execute
    remove_old,     \* --remove-old
    config,         \* get_config(): image_names and image_tags
    found_images,   \* found_images
    printed,        \* the lines printed for the jobs, in order
    local,          \* the tags of the local Docker daemon
    \* ---- docker-nifi/nifi/03_push_nifi_images.py -----------------------
    images_to_push, \* images_to_push
    clientCalls,    \* the calls made on the Docker client in this run, in order
    remote,         \* the digest the target registry holds for each reference
    \* ---- idol-images-transfer/00_explore_microfocusidol.py -------------
    fn,             \* the listing operation that is called
    tag_pattern,    \* tag_pattern of get_image_details, <<>> when None
    pages,          \* the pages the registry serves: pages[k] links to page k + 1
    cursor,         \* data.get('next'): the page the next request asks for, 0 when none
    acc,            \* packages / tags / details accumulated so far
    retval,         \* the value returned to the caller
    requests,       \* the HTTP requests issued, in order, with the status of each
    \* ---- 01_pull_from_microfocusidolserver.py --------------------------
    interrupted,    \* the global flag signal_handler sets
    pull_packages,  \* packages argument of pull_images
    pull_versions,  \* versions argument of pull_images
    pkg,            \* position of the package loop
    ver,            \* position of the version loop
    iter,           \* number of iterations of the version loop begun so far
    flagIter,       \* the iteration during which the flag was set, -1 while it is not
    pulls,          \* the docker pull commands started, with the iteration of each
    success,        \* success
    failed_pulls,   \* failed_pulls
    pull_result,    \* what pull_images returned, "none" before it returns
    \* ---- 03_push_images_to_docdirect.py: the transcript file ----------
    disk,           \* the lines of the transcript that are in the file itself
    \* ---- docker-vulnerabilities/docker_patch.py ----------------------
    containers,     \* the state of each patch_temp container, in creation order
    container,      \* container of patch_docker_image: 0 for None, or its index
    exiting,        \* sys.exit(1) of the signal handler is unwinding the stack
    success_count,  \* success_count of main
    rpm_files,      \* rpm_list: for each listed RPM file, whether the file exists
    rpm,            \* position of the install loop
    \* ---- docker-vulnerabilities/find_package.py ----------------------
    repos,          \* for each mirror of REPOS, what its package index answers
    futures,        \* the scan_repo task of each mirror: its state and its result
    all_packages,   \* all_packages of main
    consumed,       \* how many results the loop over executor.map has taken
    \* ---- 03_push_images_to_docdirect.py: the progress line of one push --
    now,            \* what time.time() returns, in ticks
    start_time,     \* start_time
    last_update,    \* last_update
    status_lines,   \* the status lines printed, with the time of each
    stream,         \* the messages of the push stream received so far
    \* ---- idol-images-transfer/02_retag_idolserver_images.py ---------
    args,           \* old_repo, source_tag, target_tag, package_pattern; <<>> for None
    \* ---- every script ------------------------------------------------
    exit_code       \* the exit status of the process, -1 while it runs

pushVars == <<dry_run, token, images, single_image, run, idx, pc, depth, locals,
              log_file, lastRun, calls, runPushes, seen, history, nChunks>>

retagVars == <<execute, remove_old, config, found_images, printed, local>>

nifiVars == <<images_to_push, clientCalls, remote>>

\* the variables only 03_push_images_to_docdirect.py uses
pushOnly == <<dry_run, single_image, run, depth, locals, log_file, lastRun,
              runPushes, seen, history, nChunks>>

exploreVars == <<fn, tag_pattern, pages, cursor, acc, retval, requests>>

pullVars == <<interrupted, pull_packages, pull_versions, pkg, ver, iter, flagIter, pulls,
              success, failed_pulls, pull_result>>

patchVars == <<containers, container, exiting, success_count, rpm_files, rpm>>

findVars == <<repos, futures, all_packages, consumed>>

progressVars == <<now, start_time, last_update, status_lines, stream>>

\* the variables of the scripts that are neither NiFi, push nor listing scripts,
\* and the transcript file of the push script
restVars == <<pullVars, disk, patchVars, findVars, progressVars, args, exit_code>>

\* what the push script leaves alone when it opens or closes the transcript
notTranscript == <<script, retagVars, nifiVars, exploreVars, pullVars, patchVars,
                   findVars, progressVars, args>>

\* what the push script leaves alone
notPush == <<script, retagVars, nifiVars, exploreVars, restVars>>

vars == <<script, pushVars, retagVars, nifiVars, exploreVars, restVars>>

----------------------------------------------------------------------------
\* Bounds of the model.

\* push-stream messages delivered in one behaviour
MaxChunks == 2
\* packages handed to pull_images
MaxPackages == 2
\* ticks of the clock during one push
MaxTime == 5
\* mirrors of REPOS that are scanned
MaxMirrors == 2
\* images listed in the images file of docker_patch.py
MaxImages == 2
\* RPM files listed in the rpms file of docker_patch.py
MaxRpms == 2
\* versions handed to pull_images
MaxVersions == 2
\* recursive self-calls of push_image explored for one job
MaxDepth == 2
\* invocations of the push script on the same local image set
MaxRuns == 2
\* pages the registry serves for one listing
MaxPages == 3

----------------------------------------------------------------------------
\* Text helpers.

\* str.lower() of one token
LowerWord(w) ==
    CASE w = "Not" -> "not"
      [] w = "Authenticated" -> "authenticated"
      [] w = "Denied" -> "denied"
      [] w = "Login" -> "login"
      [] w = "Succeeded" -> "succeeded"
      [] w = "Failed" -> "failed"
      [] w = "N" -> "n"
      [] w = "I" -> "i"
      [] OTHER -> w

\* str.lower()
Lower(s) == [i \in 1..Len(s) |-> LowerWord(s[i])]

\* needle in hay
Contains(needle, hay) ==
    \E i \in 0..(Len(hay) - Len(needle)) :
        \A k \in 1..Len(needle) : hay[i + k] = needle[k]

RECURSIVE Split(_, _)
\* s.split(sep)
Split(s, sep) ==
    IF \E i \in 1..Len(s) : s[i] = sep
    THEN LET i == CHOOSE i \in 1..Len(s) : s[i] = sep /\ \A j \in 1..(i - 1) : s[j] # sep
         IN  <<SubSeq(s, 1, i - 1)>> \o Split(SubSeq(s, i + 1, Len(s)), sep)
    ELSE <<s>>

\* q[-1]
Last(q) == q[Len(q)]

RECURSIVE FnMatch(_, _)
\* fnmatch.fnmatch(name, pat) for patterns of literal characters, '*' and '?'
FnMatch(name, pat) ==
    IF pat = <<>> THEN name = <<>>
    ELSE IF Head(pat) = "*"
    THEN FnMatch(name, Tail(pat)) \/ (name # <<>> /\ FnMatch(Tail(name), pat))
    ELSE IF Head(pat) = "?"
    THEN name # <<>> /\ FnMatch(Tail(name), Tail(pat))
    ELSE name # <<>> /\ Head(name) = Head(pat) /\ FnMatch(Tail(name), Tail(pat))

RECURSIVE Flatten(_)
\* the order in which "for image in images: for tag in image.tags" visits the tags
Flatten(ss) == IF ss = <<>> THEN <<>> ELSE Head(ss) \o Flatten(Tail(ss))

----------------------------------------------------------------------------
\* Inputs of the push script.

ErrAuthRequired == <<"unauthorized", "authentication", "required">>
ErrNotAuth == <<"Not", "Authenticated">>
ErrDenied == <<"access", "Denied">>
ErrOther == <<"server", "error">>

\* error texts of stream messages and of docker.errors.APIError
ErrorTexts == {ErrAuthRequired, ErrNotAuth, ErrDenied, ErrOther}

LayerIds == {"a", "b"}
LayerStatuses == {"Pushing", "Pushed", "Layer already exists", "Waiting"}

\* decoded messages of client.images.push(tag, stream=True, decode=True)
Chunks ==
    {[error |-> e] : e \in ErrorTexts}
    \cup {[status |-> s, id |-> l] : s \in LayerStatuses, l \in LayerIds}
    \cup {[status |-> "Preparing"]}

\* outcomes of client.login: an exception, or a result with its Status text
LoginOutcomes ==
    {[raised |-> FALSE, Status |-> <<"Login", "Succeeded">>],
     [raised |-> FALSE, Status |-> <<>>],
     [raised |-> TRUE, Status |-> <<>>]}

Repository == <<"reg">>
Packages == <<"content">>
Versions == <<"24.4">>

TagContent == <<"reg", "/", "content", ":", "24.4">>
TagContentFix == <<"reg", "/", "content", ":", "24.4", "_fix">>
TagOther == <<"hub", "/", "find", ":", "24.4">>

\* local image sets: each image is the sequence of its tags
ImageSets ==
    {<< <<TagContent>> >>,
     << <<TagOther>>, <<TagContent>> >>,
     << <<TagOther, TagContentFix>> >>}

CallNames == {"get", "inspect", "push", "login", "tag", "remove"}
NoCalls == [c \in CallNames |-> 0]
Count(c, name) == [c EXCEPT ![name] = @ + 1]

\* nothing received yet: no error message, no finished layer, the stream still open
NoneSeen == [errors |-> <<>>, done |-> FALSE, ended |-> "open", raised |-> <<>>]

\* the record of the attempt after one more stream message
Saw(s, chunk) ==
    [s EXCEPT !.errors = IF "error" \in DOMAIN chunk THEN Append(@, chunk.error) ELSE @,
              !.done = @ \/ /\ DOMAIN chunk = {"status", "id"}
                            /\ chunk.status \in {"Pushed", "Layer already exists"}]

\* the record of the attempt after its last event
Ended(s, how, e) == [s EXCEPT !.ended = how, !.raised = e]

InitLocals ==
    [total_layers |-> 0, pushed_layers |-> 0, error_details |-> <<>>,
     needs_auth |-> FALSE]

----------------------------------------------------------------------------
\* 03_push_images_to_docdirect.py

\* docker_login(registry, token): True only for a result whose Status says succeeded
docker_login(outcome) ==
    /\ ~outcome.raised
    /\ Contains(<<"succeeded">>, Lower(outcome.Status))

\* get_image_tags(repository, packages, versions)
get_image_tags(repository, packages, versions) ==
    LET n == Len(versions)
    IN  [k \in 1..(Len(packages) * n) |->
            repository \o <<"/", packages[((k - 1) \div n) + 1], ":",
                            versions[((k - 1) % n) + 1]>>]

\* any(target_tag in tag for target_tag in target_tags)
IsMatching(tag, target_tags) ==
    \E k \in 1..Len(target_tags) : Contains(target_tags[k], tag)

\* the stream loop's test on an error message
IsAuthError(text) ==
    \/ Contains(<<"authentication", "required">>, Lower(text))
    \/ Contains(<<"not", "authenticated">>, Lower(text))

\* the APIError handler's test on str(e)
IsDeniedError(text) == Contains(<<"denied">>, Lower(text))

\* the stream loop with 'Layer already exists' left out of the layer count
ProcessChunk_OnlyPushed(chunk, l) ==
    IF "error" \in DOMAIN chunk
    THEN [l EXCEPT !.error_details = Append(@, chunk.error),
                   !.needs_auth = @ \/ IsAuthError(chunk.error)]
    ELSE IF "status" \in DOMAIN chunk /\ "id" \in DOMAIN chunk
    THEN CASE chunk.status = "Pushing" -> [l EXCEPT !.total_layers = @ + 1]
           [] chunk.status = "Pushed" -> [l EXCEPT !.pushed_layers = @ + 1]
           [] OTHER -> l
    ELSE l

\* one iteration of "for chunk in response"
ProcessChunk(chunk, l) ==
    IF "error" \in DOMAIN chunk
    THEN [l EXCEPT !.error_details = Append(@, chunk.error),
                   !.needs_auth = @ \/ IsAuthError(chunk.error)]
    ELSE IF "status" \in DOMAIN chunk /\ "id" \in DOMAIN chunk
    THEN CASE chunk.status = "Pushing" -> [l EXCEPT !.total_layers = @ + 1]
           [] chunk.status = "Layer already exists" -> [l EXCEPT !.pushed_layers = @ + 1]
           [] chunk.status = "Pushed" -> [l EXCEPT !.pushed_layers = @ + 1]
           [] OTHER -> l
    ELSE l

\* the result chosen by the layers seen 'Pushing' instead of the layers pushed
StreamResult_ByTotalLayers(l, loginTried) ==
    IF loginTried
    THEN [msg |-> "Push failed: Authentication failed", errors |-> <<>>, layers |-> 0]
    ELSE IF l.error_details # <<>>
    THEN [msg |-> "Push failed", errors |-> l.error_details, layers |-> 0]
    ELSE IF l.total_layers > 0
    THEN [msg |-> "Pushed successfully", errors |-> <<>>, layers |-> l.pushed_layers]
    ELSE [msg |-> "Push failed - no layers were pushed (check authentication and permissions)",
          errors |-> <<>>, layers |-> 0]

\* the result chosen after a completed stream when no retry is taken
StreamResult(l, loginTried) ==
    IF loginTried
    THEN [msg |-> "Push failed: Authentication failed", errors |-> <<>>, layers |-> 0]
    ELSE IF l.error_details # <<>>
    THEN [msg |-> "Push failed", errors |-> l.error_details, layers |-> 0]
    ELSE IF l.pushed_layers > 0
    THEN [msg |-> "Pushed successfully", errors |-> <<>>, layers |-> l.pushed_layers]
    ELSE [msg |-> "Push failed - no layers were pushed (check authentication and permissions)",
          errors |-> <<>>, layers |-> 0]

\* the jobs of the current run, in processing order
Jobs ==
    IF single_image # <<>> THEN <<single_image>> ELSE Flatten(images)

CurrentTag == Jobs[idx]

\* log_file.write(log_entry) and return to the caller of the top-level push_image
Finish(result) ==
    /\ log_file' = Append(log_file, [tag |-> CurrentTag, result |-> result])
    /\ pc' = "returned"
    /\ UNCHANGED <<depth, history>>

\* a self-call whose caller also writes a line of its own
Retry_WritesLine(attempt) ==
    /\ depth < MaxDepth
    /\ depth' = depth + 1
    /\ pc' = "get"
    /\ history' = Append(history, attempt)
    /\ log_file' = Append(log_file, [tag |-> CurrentTag,
                                      result |-> [msg |-> "Push failed", errors |-> <<>>,
                                                  layers |-> 0]])

\* return push_image(client, tag, log_file, dry_run, token)
Retry(attempt) ==
    /\ depth < MaxDepth
    /\ depth' = depth + 1
    /\ pc' = "get"
    /\ history' = Append(history, attempt)
    /\ UNCHANGED log_file

\* except docker.errors.APIError as e (lines 273-283)
HandleAPIError(e, lo, c, attempt) ==
    IF IsDeniedError(e)
    THEN IF token
         THEN /\ calls' = Count(c, "login")
              /\ IF docker_login(lo)
                 THEN Retry(attempt)
                 ELSE Finish([msg |-> "Push failed: Access denied - check authentication credentials",
                              errors |-> <<>>, layers |-> 0])
         ELSE /\ calls' = c
              /\ Finish([msg |-> "Push failed: Access denied - check authentication credentials",
                         errors |-> <<>>, layers |-> 0])
    ELSE /\ calls' = c
         /\ Finish([msg |-> "Push failed", errors |-> <<e>>, layers |-> 0])

\* process_images: the loop reaches a tag that contains no target tag
SkipTag ==
    /\ script = "push"
    /\ pc = "scan"
    /\ idx <= Len(Jobs)
    /\ single_image = <<>>
    /\ ~IsMatching(CurrentTag, get_image_tags(Repository, Packages, Versions))
    /\ idx' = idx + 1
    /\ UNCHANGED <<dry_run, token, images, single_image, run, pc, depth, locals,
                   log_file, lastRun, calls, runPushes, seen, history, nChunks>>
    /\ UNCHANGED notPush

\* push_image without the early return of its dry-run branch
PushImageStart_NoDryRun ==
    /\ script = "push"
    /\ pc = "scan"
    /\ idx <= Len(Jobs)
    /\ \/ single_image # <<>>
       \/ IsMatching(CurrentTag, get_image_tags(Repository, Packages, Versions))
    /\ pc' = "get"
    /\ UNCHANGED <<log_file, depth, history>>
    /\ UNCHANGED <<dry_run, token, images, single_image, run, idx, locals, calls,
                   lastRun, runPushes, seen, nChunks>>
    /\ UNCHANGED notPush

\* process_images / process_single_image call push_image (lines 179-186)
PushImageStart ==
    /\ script = "push"
    /\ pc = "scan"
    /\ idx <= Len(Jobs)
    /\ \/ single_image # <<>>
       \/ IsMatching(CurrentTag, get_image_tags(Repository, Packages, Versions))
    /\ IF dry_run
       THEN Finish([msg |-> "DRY RUN - Push simulated", errors |-> <<>>, layers |-> 0])
       ELSE pc' = "get" /\ UNCHANGED <<log_file, depth, history>>
    /\ UNCHANGED <<dry_run, token, images, single_image, run, idx, locals, calls,
                   lastRun, runPushes, seen, nChunks>>
    /\ UNCHANGED notPush

\* client.images.get(tag) finds the image; client.api.inspect_image(tag)
GetImageFound ==
    /\ script = "push"
    /\ pc = "get"
    /\ calls' = Count(Count(calls, "get"), "inspect")
    /\ pc' = "push"
    /\ UNCHANGED <<dry_run, token, images, single_image, run, idx, depth, locals,
                   log_file, lastRun, runPushes, seen, history, nChunks>>
    /\ UNCHANGED notPush

\* client.images.get(tag) raises docker.errors.ImageNotFound
GetImageNotFound ==
    /\ script = "push"
    /\ pc = "get"
    /\ calls' = Count(calls, "get")
    /\ Finish([msg |-> "Image not found locally", errors |-> <<>>, layers |-> 0])
    /\ seen' = Ended(NoneSeen, "not_found", <<>>)
    /\ UNCHANGED <<dry_run, token, images, single_image, run, idx, locals,
                   lastRun, runPushes, nChunks>>
    /\ UNCHANGED notPush

\* client.images.push(tag, stream=True, decode=True) returns the stream
PushCall ==
    /\ script = "push"
    /\ pc = "push"
    /\ calls' = Count(calls, "push")
    /\ runPushes' = runPushes + 1
    /\ locals' = InitLocals
    /\ seen' = NoneSeen
    /\ pc' = "stream"
    /\ UNCHANGED <<dry_run, token, images, single_image, run, idx, depth, log_file,
                   lastRun, history, nChunks>>
    /\ UNCHANGED notPush

\* client.images.push raises docker.errors.APIError
PushCallRaisesAPIError ==
    /\ script = "push"
    /\ pc = "push"
    /\ \E e \in ErrorTexts, lo \in LoginOutcomes :
          /\ HandleAPIError(e, lo, Count(calls, "push"), Ended(NoneSeen, "api_error", e))
          /\ seen' = Ended(NoneSeen, "api_error", e)
    /\ runPushes' = runPushes + 1
    /\ UNCHANGED <<dry_run, token, images, single_image, run, idx, locals, lastRun,
                   nChunks>>
    /\ UNCHANGED notPush

\* the stream delivers one message
StreamChunk ==
    /\ script = "push"
    /\ pc = "stream"
    /\ nChunks < MaxChunks
    /\ \E chunk \in Chunks :
          /\ locals' = ProcessChunk(chunk, locals)
          /\ seen' = Saw(seen, chunk)
    /\ nChunks' = nChunks + 1
    /\ UNCHANGED <<dry_run, token, images, single_image, run, idx, pc, depth,
                   log_file, lastRun, calls, runPushes, history>>
    /\ UNCHANGED notPush

\* iterating the stream raises docker.errors.APIError
StreamRaisesAPIError ==
    /\ script = "push"
    /\ pc = "stream"
    /\ \E e \in ErrorTexts, lo \in LoginOutcomes :
          /\ HandleAPIError(e, lo, calls, Ended(seen, "api_error", e))
          /\ seen' = Ended(seen, "api_error", e)
    /\ UNCHANGED <<dry_run, token, images, single_image, run, idx, locals,
                   lastRun, runPushes, nChunks>>
    /\ UNCHANGED notPush

\* the push call or the stream raises any other exception (lines 284-285)
PushRaisesException ==
    /\ script = "push"
    /\ pc \in {"push", "stream"}
    /\ calls' = IF pc = "push" THEN Count(calls, "push") ELSE calls
    /\ runPushes' = IF pc = "push" THEN runPushes + 1 ELSE runPushes
    /\ seen' = Ended(IF pc = "push" THEN NoneSeen ELSE seen, "exception", <<>>)
    /\ Finish([msg |-> "Unexpected error", errors |-> <<>>, layers |-> 0])
    /\ UNCHANGED <<dry_run, token, images, single_image, run, idx, locals, lastRun,
                   nChunks>>
    /\ UNCHANGED notPush

\* the stream ends (lines 254-271)
StreamEnd ==
    /\ script = "push"
    /\ pc = "stream"
    /\ IF locals.needs_auth /\ token
       THEN \E lo \in LoginOutcomes :
              /\ calls' = Count(calls, "login")
              /\ IF docker_login(lo)
                 THEN Retry(Ended(seen, "completed", <<>>))
                 ELSE Finish(StreamResult(locals, TRUE))
       ELSE /\ Finish(StreamResult(locals, FALSE))
            /\ UNCHANGED calls
    /\ seen' = Ended(seen, "completed", <<>>)
    /\ UNCHANGED <<dry_run, token, images, single_image, run, idx, locals,
                   lastRun, runPushes, nChunks>>
    /\ UNCHANGED notPush

\* push_image has returned: process_images goes on with the next tag
JobReturn ==
    /\ script = "push"
    /\ pc = "returned"
    /\ pc' = "scan"
    /\ idx' = idx + 1
    /\ depth' = 0
    /\ locals' = InitLocals
    /\ calls' = NoCalls
    /\ seen' = NoneSeen
    /\ history' = <<>>
    /\ UNCHANGED <<dry_run, token, images, single_image, run, log_file, lastRun, runPushes, nChunks>>
    /\ UNCHANGED notPush

\* process_images returns: the image loop is exhausted and the with block
\* closes log_file, which writes its buffer to the file
ProcessImagesEnd ==
    /\ script = "push"
    /\ pc = "scan"
    /\ idx > Len(Jobs)
    /\ pc' = "end"
    /\ disk' = log_file
    /\ exit_code' = 0
    /\ UNCHANGED <<dry_run, token, images, single_image, run, idx, depth, locals,
                   log_file, lastRun, calls, runPushes, seen, history, nChunks>>
    /\ UNCHANGED notTranscript

\* SIGINT during process_images: KeyboardInterrupt leaves push_image (it is
\* no Exception), the with block closes log_file on the way to main's handler
KeyboardInterrupt ==
    /\ script = "push"
    /\ pc \in {"scan", "get", "push", "stream", "returned"}
    /\ pc' = "interrupted"
    /\ disk' = log_file
    /\ exit_code' = 1
    /\ UNCHANGED <<dry_run, token, images, single_image, run, idx, depth, locals,
                   log_file, lastRun, calls, runPushes, seen, history, nChunks>>
    /\ UNCHANGED notTranscript

\* the process ends without unwinding (SIGTERM, SIGKILL, a crash of the
\* host): what log_file.write left in the buffer of the file object is lost
Terminate ==
    /\ script = "push"
    /\ pc \in {"scan", "get", "push", "stream", "returned"}
    /\ pc' = "killed"
    /\ UNCHANGED <<dry_run, token, images, single_image, run, idx, depth, locals,
                   log_file, lastRun, calls, runPushes, seen, history, nChunks>>
    /\ UNCHANGED notPush

\* the script is run again on the same local images: open(log_file_path, 'w')
NextRun ==
    /\ script = "push"
    /\ pc = "end"
    /\ run < MaxRuns
    /\ run' = run + 1
    /\ idx' = 1
    /\ pc' = "scan"
    /\ log_file' = <<>>
    /\ lastRun' = [jobs |-> Len(log_file),
                    allPushed |-> \A k \in 1..Len(log_file) :
                                     log_file[k].result.msg = "Pushed successfully"]
    /\ runPushes' = 0
    /\ disk' = <<>>
    /\ exit_code' = -1
    /\ UNCHANGED <<dry_run, token, images, single_image, depth, locals, calls,
                   seen, history, nChunks>>
    /\ UNCHANGED notTranscript

\* the retag scripts are not running
IdleRetag ==
    /\ execute = FALSE
    /\ remove_old = FALSE
    /\ config = [image_names |-> <<>>, image_tags |-> <<>>]
    /\ found_images = FALSE
    /\ printed = <<>>
    /\ local = {}

\* the push script is not running
IdlePushOnly ==
    /\ dry_run = FALSE
    /\ single_image = <<>>
    /\ run = 1
    /\ depth = 0
    /\ locals = InitLocals
    /\ log_file = <<>>
    /\ lastRun = [jobs |-> 0, allPushed |-> FALSE]
    /\ runPushes = 0
    /\ seen = NoneSeen
    /\ history = <<>>
    /\ nChunks = 0

IdlePush == token = FALSE /\ IdlePushOnly

\* the NiFi push script is not running
IdleNifi ==
    /\ images_to_push = <<>>
    /\ clientCalls = <<>>
    /\ remote = <<>>

\* pull_images is not running
IdlePull ==
    /\ interrupted = FALSE
    /\ pull_packages = <<>>
    /\ pull_versions = <<>>
    /\ pkg = 0
    /\ ver = 0
    /\ iter = 0
    /\ flagIter = -1
    /\ pulls = <<>>
    /\ success = TRUE
    /\ failed_pulls = <<>>
    /\ pull_result = "none"

\* patch_docker_image is not running
IdlePatch ==
    /\ containers = <<>>
    /\ container = 0
    /\ exiting = FALSE
    /\ success_count = 0
    /\ rpm_files = <<>>
    /\ rpm = 0

\* no progress line is followed
IdleProgress ==
    /\ now = 0
    /\ start_time = 0
    /\ last_update = 0
    /\ status_lines = <<>>
    /\ stream = <<>>

\* find_package.py is not running
IdleFind ==
    /\ repos = <<>>
    /\ futures = <<>>
    /\ all_packages = <<>>
    /\ consumed = 0

\* retag_images of the idol retag script has not been called
NoArgs == [old_repo |-> <<>>, source_tag |-> <<>>, target_tag |-> <<>>,
           package_pattern |-> <<>>]

\* neither the pull script nor the patch script is running, and no transcript
\* has been written
IdleRest ==
    /\ IdlePull /\ IdlePatch /\ IdleFind /\ IdleProgress
    /\ disk = <<>>
    /\ args = NoArgs
    /\ exit_code = -1

\* no listing operation is running
IdleExplore ==
    /\ fn = "none"
    /\ tag_pattern = <<>>
    /\ pages = <<>>
    /\ cursor = 0
    /\ acc = <<>>
    /\ retval = <<>>
    /\ requests = <<>>

InitPush ==
    /\ script = "push"
    /\ IdleRest
    /\ IdleRetag
    /\ IdleNifi
    /\ IdleExplore
    /\ dry_run \in BOOLEAN
    /\ token \in BOOLEAN
    /\ images \in ImageSets
    /\ single_image \in {<<>>, TagContentFix}
    /\ run = 1
    /\ idx = 1
    /\ pc = "scan"
    /\ depth = 0
    /\ locals = InitLocals
    /\ log_file = <<>>
    /\ lastRun = [jobs |-> 0, allPushed |-> FALSE]
    /\ calls = NoCalls
    /\ runPushes = 0
    /\ seen = NoneSeen
    /\ history = <<>>
    /\ nChunks = 0

NextPush ==
    \/ SkipTag
    \/ PushImageStart
    \/ GetImageFound
    \/ GetImageNotFound
    \/ PushCall
    \/ PushCallRaisesAPIError
    \/ StreamChunk
    \/ StreamRaisesAPIError
    \/ PushRaisesException
    \/ StreamEnd
    \/ JobReturn
    \/ ProcessImagesEnd
    \/ NextRun

SpecPush == InitPush /\ [][NextPush]_vars

----------------------------------------------------------------------------
\* Claims about push_image and process_images (checked under SpecPush).

\* error texts that state an authentication requirement
AuthRequiredTexts == {ErrAuthRequired, ErrNotAuth}
\* error texts that state an authentication requirement or a denied access
AuthOrDeniedTexts == {ErrAuthRequired, ErrNotAuth, ErrDenied}

\* the line the current job has in the transcript
JobLines == {k \in 1..Len(log_file) : log_file[k].tag = CurrentTag}
LastResult == log_file[Len(log_file)].result

\* C1: for one job with dry_run false and a token, at most one re-login is
\* attempted and the push call is issued at most twice.
C1_AtMostOneRelogin ==
    (~dry_run /\ token) => (calls["login"] <= 1 /\ calls["push"] <= 2)

\* C2: a first push stream with an authentication-required error, a login that
\* succeeds and a retried push stream with a pushed or existing layer and no
\* error end the job as 'Pushed successfully', written once, after one login.
C2_RetryAfterLoginSucceeds ==
    (/\ pc = "returned"
     /\ Len(history) = 1
     /\ history[1].ended = "completed"
     /\ \E k \in 1..Len(history[1].errors) : history[1].errors[k] \in AuthRequiredTexts
     /\ seen.ended = "completed"
     /\ seen.done
     /\ seen.errors = <<>>)
    => /\ LastResult.msg = "Pushed successfully"
       /\ Cardinality(JobLines) = 1
       /\ calls["login"] = 1

C2_Witness ==
    /\ pc = "returned"
    /\ Len(history) = 1
    /\ history[1].ended = "completed"
    /\ history[1].errors = <<ErrAuthRequired>>
    /\ seen.ended = "completed"
    /\ seen.done
    /\ seen.errors = <<>>
    /\ LastResult.msg = "Pushed successfully"
    /\ calls["login"] = 1
    /\ calls["push"] = 2

\* C6: after a run that pushed every selected image successfully, a second
\* run over the same local images issues no push call.
C6_SecondRunPushesNothing ==
    (run > 1 /\ lastRun.jobs > 0 /\ lastRun.allPushed) => runPushes = 0

\* C7: a job that ends with a completed push stream is recorded as pushed
\* exactly when a 'Pushed' or 'Layer already exists' layer message was seen
\* and no error message was; otherwise it is recorded as failed, with the
\* 'no layers were pushed' reason exactly when no error message was seen.
C7_OutcomeOfCompletedStream ==
    (pc = "returned" /\ seen.ended = "completed")
    => /\ LastResult.msg = "Pushed successfully" <=> (seen.done /\ seen.errors = <<>>)
       /\ LastResult.msg = "Push failed - no layers were pushed (check authentication and permissions)"
             <=> (~seen.done /\ seen.errors = <<>>)
       /\ seen.errors # <<>> =>
             LastResult.msg \in {"Push failed", "Push failed: Authentication failed"}

C7_Witness ==
    /\ pc = "returned"
    /\ seen.ended = "completed"
    /\ history = <<>>
    /\ seen.done
    /\ seen.errors = <<>>
    /\ locals.total_layers > 0
    /\ LastResult.msg = "Pushed successfully"

\* C8: a re-login is attempted exactly when a token is available and the error
\* reported for the push (a stream error message, or the API error raised by
\* the push) states an authentication requirement or a denied access.
C8_ReloginIffAuthOrDenied ==
    (/\ pc = "returned"
     /\ ~dry_run
     /\ history = <<>>
     /\ seen.ended \in {"completed", "api_error"})
    => (calls["login"] > 0
          <=> /\ token
              /\ IF seen.ended = "api_error"
                 THEN seen.raised \in AuthOrDeniedTexts
                 ELSE \E k \in 1..Len(seen.errors) : seen.errors[k] \in AuthOrDeniedTexts)

\* C27: process_images hands a local tag to client.images.push only if the
\* tag is exactly one of the expected references built from the configured
\* packages and versions; a tag that contains one as a substring is not pushed.
C27_OnlyExactTagsArePushed ==
    (script = "push" /\ single_image = <<>> /\ pc = "push")
    => \E k \in 1..Len(get_image_tags(Repository, Packages, Versions)) :
           CurrentTag = get_image_tags(Repository, Packages, Versions)[k]

\* local images of which two tags match the target tags
TwoJobImages == << <<TagContent>>, <<TagOther, TagContentFix>> >>

\* one invocation of the script on one or two matching images
InitTranscript ==
    /\ script = "push"
    /\ IdleRest
    /\ IdleRetag
    /\ IdleNifi
    /\ IdleExplore
    /\ dry_run \in BOOLEAN
    /\ token \in BOOLEAN
    /\ images = TwoJobImages
    /\ single_image \in {<<>>, TagContentFix}
    /\ run = 1
    /\ idx = 1
    /\ pc = "scan"
    /\ depth = 0
    /\ locals = InitLocals
    /\ log_file = <<>>
    /\ lastRun = [jobs |-> 0, allPushed |-> FALSE]
    /\ calls = NoCalls
    /\ runPushes = 0
    /\ seen = NoneSeen
    /\ history = <<>>
    /\ nChunks = 0

NextTranscript ==
    \/ SkipTag
    \/ PushImageStart
    \/ GetImageFound
    \/ GetImageNotFound
    \/ PushCall
    \/ PushCallRaisesAPIError
    \/ StreamChunk
    \/ StreamRaisesAPIError
    \/ PushRaisesException
    \/ StreamEnd
    \/ JobReturn
    \/ ProcessImagesEnd

SpecTranscript == InitTranscript /\ [][NextTranscript]_vars

\* one invocation of the script that may be interrupted or ended from outside
NextDurable ==
    \/ NextTranscript
    \/ KeyboardInterrupt
    \/ Terminate

SpecDurable == InitTranscript /\ [][NextDurable]_vars

\* the jobs whose top-level push_image call has returned, in processing order
CompletedJobs ==
    LET n == IF pc = "returned" THEN idx ELSE idx - 1
        IsJob(t) == \/ single_image # <<>>
                    \/ IsMatching(t, get_image_tags(Repository, Packages, Versions))
    IN  SelectSeq(SubSeq(Jobs, 1, n), IsJob)

\* the image references of the transcript lines, in file order
TranscriptTags == [k \in 1..Len(log_file) |-> log_file[k].tag]

\* C18: every top-level call of push_image that returns has appended exactly
\* one line for its image, on every path, so the transcript holds one line per
\* completed job, in processing order, and none for the job under way.
C18_OneLinePerCompletedJob ==
    TranscriptTags = CompletedJobs

\* two jobs are complete, the second one after a re-login and a retried push
C18_Witness ==
    /\ script = "push"
    /\ pc = "returned"
    /\ depth > 0
    /\ Len(log_file) = 2
    /\ log_file[1].tag # log_file[2].tag
    /\ log_file[1].result.msg # log_file[2].result.msg

\* C19: at every moment of a run, interrupted or not, the transcript file
\* holds one complete line for each completed job and nothing else: a job's
\* line is in the file as soon as the job completes.
C19_LineDurableOnCompletion ==
    disk = log_file

----------------------------------------------------------------------------
\* docker-nifi/nifi/02_retag_nifi_images.py and retag_nifi_images.py.
\* Image references are sequences of characters here.

\* TARGET_REPO
TargetRepo == <<"t", "/", "p">>

\* the default tag of a reference without ':'
Latest == <<"l", "a", "t", "e", "s", "t">>

\* IMAGE_NAMES and IMAGE_TAGS
Configs ==
    {[image_names |-> << <<"N", "*">> >>, image_tags |-> << <<"*">> >>],
     [image_names |-> << <<"d", "b">>, <<"n", "?">> >>, image_tags |-> << <<"1">>, <<"l", "*">> >>]}

RefNi1 == <<"n", "i", ":", "1">>
RefHubNi == <<"h", "/", "N", "i">>
RefDb2 == <<"d", "b", ":", "2">>
RefTargetNi1 == <<"t", "/", "p", "/", "n", "i", ":", "1">>
RefMirrorNi1 == <<"m", "/", "t", "/", "p", "/", "n", "i", ":", "1">>
\* a reference whose registry host carries a port
RefPortNi1 == <<"h", ":", "5", "/", "n", "i", ":", "1">>

\* local image sets of the NiFi scripts
NifiImageSets ==
    {<< <<RefNi1, RefTargetNi1>>, <<RefDb2>> >>,
     << <<RefHubNi>>, <<RefMirrorNi1>>, <<RefNi1>> >>,
     << <<RefDb2, <<>>, RefNi1>> >>,
     << <<RefPortNi1>>, <<RefDb2>> >>}

\* outcomes of the Docker client calls of one loop iteration
RetagOutcomes ==
    [tag : {"ok", "APIError"}, push : {"ok", "stream_error", "APIError"},
     remove : {"ok", "APIError"}]

\* image_name of lines 141-143
ParseName(tag) == Last(Split(Split(tag, ":")[1], "/"))

\* tag_name of lines 141-144
ParseTag(tag) ==
    LET image_parts == Split(tag, ":")
    IN  IF Len(image_parts) > 1 THEN image_parts[2] ELSE Latest

\* should_process_image(image_name, image_tag, config)
should_process_image(image_name, image_tag, cfg) ==
    LET name_matches ==
            \E k \in 1..Len(cfg.image_names) :
                FnMatch(Lower(image_name), Lower(cfg.image_names[k]))
        tag_matches ==
            \E k \in 1..Len(cfg.image_tags) :
                FnMatch(Lower(image_tag), Lower(cfg.image_tags[k]))
    IN  IF ~name_matches THEN FALSE ELSE tag_matches

\* f"{target_repo}/{image_name}:{tag_name}"
NewImage(target_repo, image_name, tag_name) ==
    target_repo \o <<"/">> \o image_name \o <<":">> \o tag_name

\* "Skip if the image is already in the target repository" of retag_images
AlreadyInTarget(target_repo, tag) == Contains(target_repo, tag)

\* a printed line about one job
Line(text, tag, new_image) == [line |-> text, tag |-> tag, new_image |-> new_image]

\* a call on the Docker client with what it returned or raised
Call(name, tag, result) == [call |-> name, tag |-> tag, result |-> result]

\* retag_images: one iteration of "for image in images: for tag in image.tags"
RetagImagesStep ==
    /\ script = "retag"
    /\ pc = "scan"
    /\ idx <= Len(Jobs)
    /\ LET tag == Jobs[idx]
           image_name == ParseName(tag)
           tag_name == ParseTag(tag)
           new_image == NewImage(TargetRepo, image_name, tag_name)
       IN  IF \/ tag = <<>>
              \/ ~should_process_image(image_name, tag_name, config)
              \/ AlreadyInTarget(TargetRepo, tag)
           THEN /\ calls' = NoCalls
                /\ clientCalls' = clientCalls
                /\ UNCHANGED <<found_images, printed, local>>
           ELSE /\ found_images' = TRUE
                /\ IF ~execute
                   THEN /\ printed' = Append(printed, Line("[DRY-RUN] Retagging", tag, new_image))
                        /\ calls' = NoCalls
                        /\ clientCalls' = clientCalls
                        /\ UNCHANGED local
                   ELSE \E o \in RetagOutcomes :
                          IF o.tag = "APIError"
                          THEN /\ calls' = Count(NoCalls, "tag")
                               /\ clientCalls' = Append(clientCalls, Call("tag", tag, o.tag))
                               /\ printed' = printed \o <<Line("Retagging", tag, new_image),
                                                          Line("Error processing", tag, new_image)>>
                               /\ UNCHANGED local
                          ELSE IF ~remove_old
                          THEN /\ calls' = Count(NoCalls, "tag")
                               /\ clientCalls' = Append(clientCalls, Call("tag", tag, o.tag))
                               /\ printed' = printed \o <<Line("Retagging", tag, new_image),
                                                          Line("Successfully retagged", tag, new_image)>>
                               /\ local' = local \cup {new_image}
                          ELSE /\ calls' = Count(Count(NoCalls, "tag"), "remove")
                               /\ clientCalls' = clientCalls \o <<Call("tag", tag, o.tag), Call("remove", tag, o.remove)>>
                               /\ printed' = printed
                                    \o <<Line("Retagging", tag, new_image),
                                         Line("Successfully retagged", tag, new_image),
                                         Line("Removing old tag", tag, new_image)>>
                                    \o IF o.remove = "ok" THEN <<>>
                                       ELSE <<Line("Error processing", tag, new_image)>>
                               /\ local' = IF o.remove = "ok"
                                           THEN (local \cup {new_image}) \ {tag}
                                           ELSE local \cup {new_image}
    /\ idx' = idx + 1
    /\ UNCHANGED <<script, images, pc, execute, remove_old, config>>
    /\ UNCHANGED <<token, pushOnly, images_to_push, remote, exploreVars, restVars>>

\* retag_and_push_images: one iteration of the image/tag loop
RetagAndPushStep ==
    /\ script = "retag_push"
    /\ pc = "scan"
    /\ idx <= Len(Jobs)
    /\ LET tag == Jobs[idx]
           image_name == ParseName(tag)
           tag_name == ParseTag(tag)
           new_image == NewImage(TargetRepo, image_name, tag_name)
       IN  IF tag = <<>> \/ ~should_process_image(image_name, tag_name, config)
           THEN /\ calls' = NoCalls
                /\ clientCalls' = clientCalls
                /\ UNCHANGED <<found_images, printed, local>>
           ELSE /\ found_images' = TRUE
                /\ IF ~execute
                   THEN /\ printed' = Append(printed, Line("[DRY-RUN] Retagging", tag, new_image))
                        /\ calls' = NoCalls
                        /\ clientCalls' = clientCalls
                        /\ UNCHANGED local
                   ELSE \E o \in RetagOutcomes :
                          IF o.tag = "APIError"
                          THEN /\ calls' = Count(NoCalls, "tag")
                               /\ clientCalls' = Append(clientCalls, Call("tag", tag, o.tag))
                               /\ printed' = printed \o <<Line("Retagging", tag, new_image),
                                                          Line("Error processing", tag, new_image)>>
                               /\ UNCHANGED local
                          ELSE IF o.push = "APIError"
                          THEN /\ calls' = Count(Count(NoCalls, "tag"), "push")
                               /\ clientCalls' = clientCalls \o <<Call("tag", tag, o.tag), Call("push", new_image, o.push)>>
                               /\ printed' = printed \o <<Line("Retagging", tag, new_image),
                                                          Line("Pushing", tag, new_image),
                                                          Line("Error processing", tag, new_image)>>
                               /\ local' = local \cup {new_image}
                          ELSE IF ~remove_old
                          THEN /\ calls' = Count(Count(NoCalls, "tag"), "push")
                               /\ clientCalls' = clientCalls \o <<Call("tag", tag, o.tag), Call("push", new_image, o.push)>>
                               /\ printed' = printed \o <<Line("Retagging", tag, new_image),
                                                          Line("Pushing", tag, new_image)>>
                               /\ local' = local \cup {new_image}
                          ELSE /\ calls' = Count(Count(Count(NoCalls, "tag"), "push"), "remove")
                               /\ clientCalls' = clientCalls \o <<Call("tag", tag, o.tag), Call("push", new_image, o.push),
                                                              Call("remove", tag, o.remove)>>
                               /\ printed' = printed
                                    \o <<Line("Retagging", tag, new_image),
                                         Line("Pushing", tag, new_image),
                                         Line("Removing old tag", tag, new_image)>>
                                    \o IF o.remove = "ok" THEN <<>>
                                       ELSE <<Line("Error processing", tag, new_image)>>
                               /\ local' = IF o.remove = "ok"
                                           THEN (local \cup {new_image}) \ {tag}
                                           ELSE local \cup {new_image}
    /\ idx' = idx + 1
    /\ UNCHANGED <<script, images, pc, execute, remove_old, config>>
    /\ UNCHANGED <<token, pushOnly, images_to_push, remote, exploreVars, restVars>>

\* the image loop of retag_images / retag_and_push_images is exhausted
RetagEnd ==
    /\ script \in {"retag", "retag_push"}
    /\ pc = "scan"
    /\ idx > Len(Jobs)
    /\ pc' = "end"
    /\ printed' = IF found_images THEN printed
                  ELSE Append(printed, Line("No matching images found locally", <<>>, <<>>))
    /\ calls' = NoCalls
    /\ UNCHANGED <<script, images, idx, execute, remove_old, config, found_images, local>>
    /\ UNCHANGED <<token, pushOnly, nifiVars, exploreVars, restVars>>

InitRetag ==
    /\ script \in {"retag", "retag_push"}
    /\ IdleRest
    /\ IdlePush
    /\ IdleNifi
    /\ IdleExplore
    /\ execute \in BOOLEAN
    /\ remove_old \in BOOLEAN
    /\ config \in Configs
    /\ images \in NifiImageSets
    /\ local = {Flatten(images)[k] : k \in 1..Len(Flatten(images))} \ {<<>>}
    /\ found_images = FALSE
    /\ printed = <<>>
    /\ idx = 1
    /\ pc = "scan"
    /\ calls = NoCalls

NextRetag ==
    \/ RetagImagesStep
    \/ RetagAndPushStep
    \/ RetagEnd

SpecRetag == InitRetag /\ [][NextRetag]_vars

----------------------------------------------------------------------------
\* Claims about the NiFi retag scripts (checked under SpecRetag).

\* the last path segment of a reference
LastSegment(ref) == Last(Split(ref, "/"))

\* the bare name of a reference: its last path segment without the tag
BareName(ref) == Split(LastSegment(ref), ":")[1]

\* the tag of a reference, 'latest' when it names none
RefTag(ref) ==
    IF Len(Split(LastSegment(ref), ":")) > 1 THEN Split(LastSegment(ref), ":")[2] ELSE Latest

\* text matches one of the globs, compared case-insensitively
MatchesAny(text, globs) ==
    \E k \in 1..Len(globs) : FnMatch(Lower(text), Lower(globs[k]))

\* the reference is a candidate by its name and tag
Selected(ref) ==
    /\ ref # <<>>
    /\ MatchesAny(BareName(ref), config.image_names)
    /\ MatchesAny(RefTag(ref), config.image_tags)

\* the loop went on to retag the reference
Processed(ref) ==
    \E k \in 1..Len(printed) :
        /\ printed[k].tag = ref
        /\ printed[k].line \in {"Retagging", "[DRY-RUN] Retagging"}

\* the jobs the loop has finished
JobsDone == {k \in 1..Len(Jobs) : k < idx}

\* C13: a local reference is a candidate exactly when its bare name matches a
\* configured name glob and its tag matches a configured tag glob, compared
\* case-insensitively; no other reference is tagged, pushed or removed.
C13_SelectedIffNameAndTagMatch ==
    script \in {"retag", "retag_push"} =>
        \A k \in JobsDone :
            /\ Processed(Jobs[k]) => Selected(Jobs[k])
            /\ script = "retag_push" => (Selected(Jobs[k]) => Processed(Jobs[k]))
            /\ (~Selected(Jobs[k]) /\ Jobs[k] # <<>>) => Jobs[k] \in local

\* the reference starts with the target repository prefix
StartsWithTarget(ref) ==
    /\ Len(ref) >= Len(TargetRepo)
    /\ SubSeq(ref, 1, Len(TargetRepo)) = TargetRepo

\* the name and tag the scan derives from the reference pass should_process_image
PassesGlobs(ref) ==
    /\ ref # <<>>
    /\ should_process_image(ParseName(ref), ParseTag(ref), config)

\* C14: a reference is excluded as already migrated exactly when it starts with
\* the target repository prefix: such a reference is never retagged, and a
\* reference that passes the globs and does not start with the prefix is.
C14_ExcludedIffStartsWithTarget ==
    script \in {"retag", "retag_push"} =>
        \A k \in JobsDone :
            /\ StartsWithTarget(Jobs[k]) => ~Processed(Jobs[k])
            /\ (PassesGlobs(Jobs[k]) /\ ~StartsWithTarget(Jobs[k])) => Processed(Jobs[k])

\* the removal calls made so far
RemoveCalls == {k \in 1..Len(clientCalls) : clientCalls[k].call = "remove"}

\* an error was reported for the job of the reference
ReportedFailed(ref) ==
    \E k \in 1..Len(printed) : printed[k].tag = ref /\ printed[k].line = "Error processing"

\* C15: the original tag is removed only when removal was requested and the
\* job succeeded - after a tag call that succeeded and, in
\* retag_and_push_images, a push that ended without any error - and a removal
\* that fails does not turn the job into a failed one.
C15_RemoveOnlyAfterSuccess ==
    script \in {"retag", "retag_push"} =>
        \A k \in RemoveCalls :
            /\ remove_old
            /\ script = "retag" =>
                  clientCalls[k - 1] = Call("tag", clientCalls[k].tag, "ok")
            /\ script = "retag_push" =>
                  /\ clientCalls[k - 1].call = "push" /\ clientCalls[k - 1].result = "ok"
                  /\ clientCalls[k - 2] = Call("tag", clientCalls[k].tag, "ok")
            /\ clientCalls[k].result # "ok" => ~ReportedFailed(clientCalls[k].tag)

----------------------------------------------------------------------------
\* docker-nifi/nifi/03_push_nifi_images.py

RefTargetNi2 == <<"t", "/", "p", "/", "n", "i", ":", "2">>

\* the references the target registry may hold
TargetRefs == {RefTargetNi1, RefTargetNi2}

Digests == {"d1", "d2"}

\* local_image.id of client.images.get(image_tag)
LocalDigest(image_tag) == "d1"

\* local image sets of the NiFi push script
NifiPushImageSets ==
    {<< <<RefTargetNi1>>, <<RefNi1>> >>,
     << <<RefTargetNi1, RefTargetNi2>> >>}

\* what client.images.get_registry_data(image_tag) can do: return the data the
\* registry holds, or raise NotFound, APIError or a requests timeout
LookupOutcomes(image_tag) ==
    (IF remote[image_tag] = "none" THEN {"NotFound"} ELSE {remote[image_tag]})
    \cup {"APIError", "Timeout"}

\* a comparison of digests that never finds them equal
check_remote_image_exists_Never(image_tag, lookup, localGet) == FALSE

\* check_remote_image_exists(client, image_tag, config) for a lookup outcome and
\* the outcome of client.images.get(image_tag)
check_remote_image_exists(image_tag, lookup, localGet) ==
    IF lookup \in {"NotFound", "APIError"} THEN FALSE
    ELSE IF localGet # "ok" THEN FALSE
    ELSE lookup = LocalDigest(image_tag)

\* tag.startswith(target_repo)
StartsWith(tag, target_repo) ==
    /\ Len(tag) >= Len(target_repo)
    /\ SubSeq(tag, 1, Len(target_repo)) = target_repo

\* main: login_to_registry(client, config), then push_images is called
NifiLogin ==
    /\ script = "nifi_push"
    /\ pc = "login"
    /\ IF token
       THEN \E o \in {"ok", "APIError"} :
              /\ clientCalls' = Append(clientCalls, Call("login", <<>>, o))
              /\ pc' = IF o = "ok" THEN "scan" ELSE "exit1"
              /\ printed' = Append(printed,
                                   Line(IF o = "ok" THEN "Successfully logged in to registry"
                                        ELSE "Error logging in to registry", <<>>, <<>>))
       ELSE /\ pc' = "scan"
            /\ printed' = Append(printed, Line("Warning: skipping login", <<>>, <<>>))
            /\ UNCHANGED clientCalls
    /\ UNCHANGED <<script, token, images, idx, calls, pushOnly, execute, remove_old,
                   config, found_images, local, images_to_push, remote>>
    /\ UNCHANGED <<exploreVars, restVars>>

\* push_images: one iteration of the scan loop (lines 168-191)
NifiScanStep ==
    /\ script = "nifi_push"
    /\ pc = "scan"
    /\ idx <= Len(Jobs)
    /\ LET tag == Jobs[idx]
           image_name == ParseName(tag)
           tag_name == ParseTag(tag)
       IN  IF \/ tag = <<>>
              \/ ~(StartsWith(tag, TargetRepo) /\ should_process_image(image_name, tag_name, config))
           THEN /\ idx' = idx + 1
                /\ UNCHANGED <<pc, found_images, printed, images_to_push, clientCalls>>
           ELSE \E lookup \in LookupOutcomes(tag), localGet \in {"ok", "NotFound"} :
                  /\ clientCalls' = clientCalls
                        \o <<Call("get_registry_data", tag, lookup)>>
                        \o IF lookup \in {"NotFound", "APIError", "Timeout"} THEN <<>>
                           ELSE <<Call("get", tag, localGet)>>
                  /\ IF lookup = "Timeout"
                     THEN /\ pc' = "crashed"
                          /\ UNCHANGED <<idx, found_images, printed, images_to_push>>
                     ELSE /\ idx' = idx + 1
                          /\ pc' = pc
                          /\ IF check_remote_image_exists(tag, lookup, localGet)
                             THEN /\ printed' = Append(printed, Line("Skipping", tag, <<>>))
                                  /\ UNCHANGED <<found_images, images_to_push>>
                             ELSE /\ found_images' = TRUE
                                  /\ images_to_push' = Append(images_to_push, tag)
                                  /\ printed' =
                                        IF lookup = "APIError"
                                        THEN Append(printed,
                                                    Line("Warning: Could not check remote image", tag, <<>>))
                                        ELSE printed
    /\ UNCHANGED <<script, token, images, calls, pushOnly, execute, remove_old,
                   config, local, remote>>
    /\ UNCHANGED <<exploreVars, restVars>>

\* push_images: the scan is over (lines 193-205)
NifiScanEnd ==
    /\ script = "nifi_push"
    /\ pc = "scan"
    /\ idx > Len(Jobs)
    /\ IF ~found_images
       THEN /\ printed' = Append(printed, Line("No matching images found to push", <<>>, <<>>))
            /\ pc' = "end"
       ELSE IF ~execute
       THEN /\ printed' = printed \o [k \in 1..Len(images_to_push) |->
                                         Line("[DRY-RUN] Would push", images_to_push[k], <<>>)]
            /\ pc' = "end"
       ELSE /\ pc' = "pushing"
            /\ UNCHANGED printed
    /\ idx' = 1
    /\ UNCHANGED <<script, token, images, calls, pushOnly, execute, remove_old,
                   config, found_images, local, images_to_push, clientCalls, remote>>
    /\ UNCHANGED <<exploreVars, restVars>>

\* push_images: one iteration of the push loop (lines 208-242)
NifiPushStep ==
    /\ script = "nifi_push"
    /\ pc = "pushing"
    /\ idx <= Len(images_to_push)
    /\ LET tag == images_to_push[idx]
       IN  \E o \in {"ok", "stream_error", "APIError"} :
             /\ clientCalls' = Append(clientCalls, Call("push", tag, o))
             /\ printed' = printed
                   \o <<Line("Pushing", tag, <<>>),
                        Line(IF o = "APIError" THEN "Error pushing" ELSE "Successfully pushed",
                             tag, <<>>)>>
             /\ remote' = IF o = "ok" THEN [remote EXCEPT ![tag] = LocalDigest(tag)]
                          ELSE remote
    /\ idx' = idx + 1
    /\ UNCHANGED <<script, token, images, pc, calls, pushOnly, execute, remove_old,
                   config, found_images, local, images_to_push>>
    /\ UNCHANGED <<exploreVars, restVars>>

\* push_images returns after the last push
NifiPushEnd ==
    /\ script = "nifi_push"
    /\ pc = "pushing"
    /\ idx > Len(images_to_push)
    /\ pc' = "end"
    /\ UNCHANGED <<script, token, images, idx, calls, pushOnly, execute, remove_old,
                   config, found_images, printed, local, images_to_push,
                   clientCalls, remote>>
    /\ UNCHANGED <<exploreVars, restVars>>

InitNifi ==
    /\ script = "nifi_push"
    /\ IdleRest
    /\ IdlePushOnly
    /\ IdleExplore
    /\ token \in BOOLEAN
    /\ execute \in BOOLEAN
    /\ remove_old = FALSE
    /\ config \in Configs
    /\ images \in NifiPushImageSets
    /\ local = {Flatten(images)[k] : k \in 1..Len(Flatten(images))}
    /\ remote \in [TargetRefs -> {"none"} \cup Digests]
    /\ found_images = FALSE
    /\ printed = <<>>
    /\ images_to_push = <<>>
    /\ clientCalls = <<>>
    /\ idx = 1
    /\ pc = "login"
    /\ calls = NoCalls

NextNifi ==
    \/ NifiLogin
    \/ NifiScanStep
    \/ NifiScanEnd
    \/ NifiPushStep
    \/ NifiPushEnd

SpecNifi == InitNifi /\ [][NextNifi]_vars

\* the calls made on the Docker client for a reference
CallsFor(name, tag) ==
    {k \in 1..Len(clientCalls) : clientCalls[k].call = name /\ clientCalls[k].tag = tag}

\* the references of the sequence q
Range(q) == {q[k] : k \in 1..Len(q)}

\* C4: in dry-run mode the NiFi push script makes no network call: no registry
\* login and no remote digest lookup.
C4_DryRunMakesNoNetworkCall ==
    (script = "nifi_push" /\ ~execute) =>
        \A k \in 1..Len(clientCalls) :
            clientCalls[k].call \notin {"login", "get_registry_data"}

\* C5: a reference whose digest, as returned by the registry, equals the digest
\* of the local image is never pushed or tagged, is not in images_to_push and
\* is reported as skipped.
C5_SameDigestIsSkipped ==
    script = "nifi_push" =>
        \A tag \in TargetRefs :
            (/\ \E k \in CallsFor("get_registry_data", tag) :
                    clientCalls[k].result = LocalDigest(tag)
             /\ \E k \in CallsFor("get", tag) : clientCalls[k].result = "ok")
            => /\ CallsFor("push", tag) = {}
               /\ CallsFor("tag", tag) = {}
               /\ tag \notin Range(images_to_push)
               /\ \E k \in 1..Len(printed) :
                     printed[k].line = "Skipping" /\ printed[k].tag = tag

C5_Witness ==
    /\ script = "nifi_push"
    /\ execute
    /\ pc = "end"
    /\ \E k \in CallsFor("get_registry_data", RefTargetNi1) :
          clientCalls[k].result = LocalDigest(RefTargetNi1)
    /\ \E k \in CallsFor("get", RefTargetNi1) : clientCalls[k].result = "ok"
    /\ CallsFor("push", RefTargetNi2) # {}
    /\ CallsFor("push", RefTargetNi1) = {}

\* the calls of push_images that raised an error
FailedCalls ==
    {k \in 1..Len(clientCalls) :
        /\ clientCalls[k].call \in {"get_registry_data", "get", "push"}
        /\ clientCalls[k].result \in {"NotFound", "APIError", "Timeout"}}

\* the position of a reference in the list of jobs
JobOf(ref) == CHOOSE k \in 1..Len(Jobs) : Jobs[k] = ref

\* the remote digest lookups that found nothing or failed
FailedLookups ==
    {k \in 1..Len(clientCalls) :
        /\ clientCalls[k].call = "get_registry_data"
        /\ clientCalls[k].result \in {"NotFound", "APIError", "Timeout"}}

\* C25: the remote digest lookup is best-effort: after a lookup that found
\* nothing the job is queued for the push, after a lookup that failed in any
\* other way (API error, timeout) a warning is printed and the job is queued
\* as well; the run is not aborted.
C25_LookupFailureStillPushes ==
    script = "nifi_push" =>
        \A k \in FailedLookups :
            /\ clientCalls[k].tag \in {images_to_push[j] : j \in 1..Len(images_to_push)}
            /\ clientCalls[k].result # "NotFound" =>
                  \E j \in 1..Len(printed) :
                      /\ printed[j].line = "Warning: Could not check remote image"
                      /\ printed[j].tag = clientCalls[k].tag

\* C28: in execute mode an image is reported as 'Successfully pushed' only if
\* its push stream carried no message with an 'error' field.
C28_SuccessOnlyWithoutStreamError ==
    script = "nifi_push" =>
        \A j \in 1..Len(printed) :
            printed[j].line = "Successfully pushed" =>
                \A k \in 1..Len(clientCalls) :
                    (clientCalls[k].call = "push" /\ clientCalls[k].tag = printed[j].tag)
                    => clientCalls[k].result # "stream_error"

\* C16: an error raised while a job is processed is caught at the job's
\* boundary, and every later job is still processed: the run does not end
\* with jobs of the scan left over.
C16_JobErrorsDoNotStopLaterJobs ==
    script = "nifi_push" =>
        \A k \in FailedCalls :
            /\ pc # "crashed"
            /\ (pc = "scan" /\ clientCalls[k].call # "push") => idx > JobOf(clientCalls[k].tag)

----------------------------------------------------------------------------
\* idol-images-transfer/00_explore_microfocusidol.py
\* Names are sequences of characters; sorted() orders them as Python orders
\* strings, by code point.

\* ord(c)
CharCode(c) ==
    CASE c = "1" -> 49
      [] c = "2" -> 50
      [] c = "a" -> 97
      [] c = "b" -> 98
      [] OTHER -> 0

RECURSIVE LexLess(_, _)
\* s < t for two strings
LexLess(s, t) ==
    IF t = <<>> THEN FALSE
    ELSE IF s = <<>> THEN TRUE
    ELSE IF Head(s) = Head(t) THEN LexLess(Tail(s), Tail(t))
    ELSE CharCode(Head(s)) < CharCode(Head(t))

RECURSIVE Insert(_, _)
\* x placed behind the elements of the sorted q that are not greater than x
Insert(x, q) ==
    IF q = <<>> THEN <<x>>
    ELSE IF LexLess(x, Head(q)) THEN <<x>> \o q
    ELSE <<Head(q)>> \o Insert(x, Tail(q))

RECURSIVE Sorted(_)
\* sorted(q)
Sorted(q) == IF q = <<>> THEN <<>> ELSE Insert(Last(q), Sorted(SubSeq(q, 1, Len(q) - 1)))

Name1 == <<"1">>
Name2 == <<"2">>
Name1a == <<"1", "a">>
NameB == <<"b">>

\* the 'results' a page may carry: the names of its repositories or tags
PageResults == {<<>>, <<Name2>>, <<NameB, Name1>>, <<Name1a, Name2>>}

\* the registries: chains of 1..MaxPages pages
Registries == UNION {[1..n -> PageResults] : n \in 1..MaxPages}

\* a loop that keeps the 'next' pointer of the page it has just requested
NextOf_Stale(k) == k

\* data.get('next') of page k of the registry
NextOf(k) == IF k < Len(pages) THEN k + 1 ELSE 0

\* the headers of the first request of a listing
FirstHeaders == {"Authorization", "Content-Type"}
\* follow-up requests sent without any header
NextHeaders_None == {}

\* the headers of the follow-up requests
NextHeaders == {"Authorization"}

\* an HTTP request with the status of its response, or the exception raised
Request(url, headers, status) == [url |-> url, headers |-> headers, status |-> status]

\* what one page adds: [repo['name'] for repo in results], the same for tags,
\* and process_tags(results) for get_image_details
PageItems(results) ==
    IF fn = "get_image_details"
    THEN SelectSeq(results, LAMBDA name : tag_pattern = <<>> \/ FnMatch(name, tag_pattern))
    ELSE results

\* packages.extend(...) / tags.extend(...) / process_tags(...)
Extend(items, results) == items \o PageItems(results)

\* a return statement that leaves the items as they were accumulated
ReturnValue_Unsorted(items) == items

\* the value of the return statement behind the loop
ReturnValue(items) == IF fn = "get_image_details" THEN items ELSE Sorted(items)

\* the listing operations print only in some of their branches
Prints(text) ==
    IF \/ fn = "get_all_packages"
       \/ fn = "get_image_details" /\ text = "Error getting image details"
    THEN Append(printed, Line(text, <<>>, <<>>))
    ELSE printed

\* what the listing operations leave alone
notExplore ==
    <<script, token, images, idx, calls, pushOnly, execute, remove_old, config,
      found_images, local, nifiVars, restVars>>

\* requests.post(login) and the checks of its response
ExploreLogin ==
    /\ script = "explore"
    /\ pc = "login"
    /\ \E o \in {"200", "200 without token", "401", "Timeout", "ConnectionError"} :
          /\ requests' = Append(requests, Request(<<"login">>, {}, o))
          /\ pc' = IF o = "200" THEN "first" ELSE "done"
          /\ printed' = CASE o = "200" -> printed
                          [] o = "200 without token" -> Prints("No token received after login")
                          [] o = "401" -> Prints("Login failed")
                          [] OTHER -> Prints(IF fn = "get_all_packages"
                                             THEN "Error fetching packages"
                                             ELSE "Error getting image details")
    /\ UNCHANGED <<fn, tag_pattern, pages, cursor, acc, retval>>
    /\ UNCHANGED notExplore

\* the request for the first page
ExploreFirstPage ==
    /\ script = "explore"
    /\ pc = "first"
    /\ \E o \in {"200", "500", "Timeout", "ConnectionError"} :
          /\ requests' = Append(requests, Request(<<"page", 1>>, FirstHeaders, o))
          /\ IF o = "200"
             THEN /\ acc' = Extend(<<>>, pages[1])
                  /\ cursor' = NextOf(1)
                  /\ pc' = "loop"
                  /\ UNCHANGED printed
             ELSE /\ pc' = "done"
                  /\ printed' = IF o = "500" THEN Prints("Error response")
                                ELSE Prints(IF fn = "get_all_packages"
                                            THEN "Error fetching packages"
                                            ELSE "Error getting image details")
                  /\ UNCHANGED <<acc, cursor>>
    /\ UNCHANGED <<fn, tag_pattern, pages, retval>>
    /\ UNCHANGED notExplore

\* one iteration of "while data.get('next')"; a failed request ends the operation
ExploreNextPage ==
    /\ script = "explore"
    /\ pc = "loop"
    /\ cursor # 0
    /\ \E o \in {"200", "500", "Timeout", "ConnectionError"} :
          /\ requests' = Append(requests, Request(<<"page", cursor>>, NextHeaders, o))
          /\ CASE o = "200" ->
                    /\ acc' = Extend(acc, pages[cursor])
                    /\ cursor' = NextOf(cursor)
                    /\ UNCHANGED <<pc, retval, printed>>
               [] o = "500" ->
                    /\ printed' = Prints("Failed to get next page")
                    /\ retval' = ReturnValue(acc)
                    /\ pc' = "done"
                    /\ UNCHANGED <<acc, cursor>>
               [] OTHER ->
                    /\ printed' = Prints(IF fn = "get_all_packages"
                                         THEN "Error fetching packages"
                                         ELSE "Error getting image details")
                    /\ retval' = <<>>
                    /\ pc' = "done"
                    /\ UNCHANGED <<acc, cursor>>
    /\ UNCHANGED <<fn, tag_pattern, pages>>
    /\ UNCHANGED notExplore

\* the last page carried no 'next': the operation returns
ExploreReturn ==
    /\ script = "explore"
    /\ pc = "loop"
    /\ cursor = 0
    /\ retval' = ReturnValue(acc)
    /\ pc' = "done"
    /\ UNCHANGED <<fn, tag_pattern, pages, cursor, acc, requests, printed>>
    /\ UNCHANGED notExplore

InitExplore ==
    /\ script = "explore"
    /\ IdleRest
    /\ IdlePush
    /\ IdleNifi
    /\ execute = FALSE
    /\ remove_old = FALSE
    /\ config = [image_names |-> <<>>, image_tags |-> <<>>]
    /\ found_images = FALSE
    /\ local = {}
    /\ images = <<>>
    /\ idx = 1
    /\ calls = NoCalls
    /\ printed = <<>>
    /\ fn \in {"get_all_packages", "list_tags", "get_image_details"}
    /\ tag_pattern \in IF fn = "get_image_details" THEN {<<>>, <<"1", "*">>} ELSE {<<>>}
    /\ pages \in Registries
    /\ cursor = 0
    /\ acc = <<>>
    /\ retval = <<>>
    /\ requests = <<>>
    /\ pc = "login"

NextExplore ==
    \/ ExploreLogin
    \/ ExploreFirstPage
    \/ ExploreNextPage
    \/ ExploreReturn

SpecExplore == InitExplore /\ [][NextExplore]_vars

RECURSIVE Concat(_)
\* the items of the pages q, page after page
Concat(q) == IF q = <<>> THEN <<>> ELSE Head(q) \o Concat(Tail(q))

\* every request of the listing was answered with status 200
EveryRequestSucceeded == \A k \in 1..Len(requests) : requests[k].status = "200"

\* the number of times x occurs in q
Occurrences(x, q) == Cardinality({k \in 1..Len(q) : q[k] = x})

\* q holds the same items as r, each as often
SameItems(q, r) ==
    /\ Len(q) = Len(r)
    /\ \A k \in 1..Len(r) : Occurrences(r[k], q) = Occurrences(r[k], r)

\* no item of q is followed by a smaller one
Ascending(q) == \A k \in 1..(Len(q) - 1) : ~LexLess(q[k + 1], q[k])

\* C9 as stated: when every request succeeds, a listing returns the
\* concatenation of the items of all pages in the order the server sent them.
C9_ReturnsPagesInServerOrder ==
    (script = "explore" /\ pc = "done" /\ EveryRequestSucceeded)
    => retval = Concat(pages)

\* C9 as amended: get_all_packages and list_tags return the names of all
\* pages in ascending order; get_image_details returns, in server order, the
\* items of all pages whose name matches tag_pattern (all without a pattern).
C9_ReturnsAllPagesSortedOrFiltered ==
    (script = "explore" /\ pc = "done" /\ EveryRequestSucceeded)
    => /\ Len(requests) = Len(pages) + 1
       /\ fn \in {"get_all_packages", "list_tags"} =>
             SameItems(retval, Concat(pages)) /\ Ascending(retval)
       /\ fn = "get_image_details" =>
             retval = SelectSeq(Concat(pages),
                                LAMBDA name : tag_pattern = <<>> \/ FnMatch(name, tag_pattern))

C9_Witness ==
    /\ script = "explore"
    /\ pc = "done"
    /\ EveryRequestSucceeded
    /\ fn = "list_tags"
    /\ Len(pages) = 3
    /\ pages[1] = <<NameB, Name1>>
    /\ retval # Concat(pages)
    /\ Len(retval) = 5

\* the pages fetched before the first request that failed
PagesFetched == [k \in 1..(Len(requests) - 2) |-> pages[k]]

\* C10: when a page request returns a non-success status, the operation returns
\* the items accumulated before it and reports an error with them.
C10_PartialResultWithError ==
    (/\ script = "explore"
     /\ pc = "done"
     /\ Len(requests) >= 2
     /\ requests[Len(requests)].status = "500")
    => /\ SameItems(retval, PageItems(Concat(PagesFetched)))
       /\ \E k \in 1..Len(printed) :
             printed[k].line \in {"Error response", "Failed to get next page"}

\* the page requests of the listing: every request behind the login
PageRequests == {k \in 1..Len(requests) : requests[k].url # <<"login">>}

\* C12 as stated: every follow-up page request carries the same set of headers
\* as the request for page 1.
C12_SameHeaderSetOnEveryPage ==
    script = "explore" =>
        \A k \in PageRequests : requests[k].headers = requests[2].headers

\* C12 as amended: every page request carries the Authorization header; the
\* first one carries Content-Type besides, the follow-up requests do not.
C12_AuthorizationOnEveryPage ==
    script = "explore" =>
        \A k \in PageRequests :
            /\ "Authorization" \in requests[k].headers
            /\ requests[k].headers =
                  IF k = 2 THEN {"Authorization", "Content-Type"} ELSE {"Authorization"}

C12_Witness ==
    /\ script = "explore"
    /\ pc = "done"
    /\ fn = "list_tags"
    /\ Cardinality(PageRequests) = 3
    /\ EveryRequestSucceeded
    /\ requests[4].headers # requests[2].headers

\* the k-th request of a listing asks for page k - 1 of the chain, and no
\* request follows a response that was not a success
OneRequestPerPage ==
    /\ Len(requests) <= Len(pages) + 1
    /\ \A k \in 2..Len(requests) : requests[k].url = <<"page", k - 1>>
    /\ \A k \in 1..(Len(requests) - 1) : requests[k].status = "200"
    /\ \A k, m \in PageRequests : k # m => requests[k].url # requests[m].url
    /\ (pc = "done" /\ EveryRequestSucceeded) => Len(requests) = Len(pages) + 1

\* an upper bound of the steps a listing has left: its login, its first
\* request, one request for every page behind the cursor, and its return
StepsLeft ==
    CASE pc = "login" -> Len(pages) + 3
      [] pc = "first" -> Len(pages) + 2
      [] pc = "loop" -> IF cursor = 0 THEN 1 ELSE Len(pages) - cursor + 2
      [] OTHER -> 0

\* a listing that has not returned is at a statement it can execute
CanStep ==
    \/ pc \in {"login", "first", "done"}
    \/ pc = "loop" /\ cursor \in 0..Len(pages)

\* C30: on a registry whose chain of 'next' pointers is finite and whose
\* requests are answered, every paginated listing ends: a listing that has not
\* returned can always take its next step, and every step leaves fewer steps
\* to take. It sends one request per page, in chain order, stops at the page
\* without a 'next' pointer or at the first response that is not a success,
\* and requests no pointer twice.
C30_ListingTerminates ==
    /\ [](script = "explore" => OneRequestPerPage /\ CanStep)
    /\ [][script = "explore" => StepsLeft' < StepsLeft]_vars

\* a listing of three pages that has ended after its fourth request
C30_Witness ==
    /\ script = "explore"
    /\ pc = "done"
    /\ Len(pages) = MaxPages
    /\ Len(requests) = MaxPages + 1
    /\ requests[Len(requests)].status = "200"

----------------------------------------------------------------------------
\* idol-images-transfer/00_explore_gitlab.py

\* headers=config.headers of every request
GitlabHeaders == {"PRIVATE-TOKEN"}

\* what a request of the GitLab explorer can do: answer, or raise
GitlabOutcomes == {"200", "500", "Timeout", "ConnectionError", "Exception"}

\* logger.error(...) of the except clauses, by the exception raised
ExceptLine(o) ==
    CASE o = "Timeout" -> Line("Connection timed out", <<>>, <<>>)
      [] o = "ConnectionError" -> Line("Failed to connect to the GitLab server", <<>>, <<>>)
      [] OTHER -> Line("An unexpected error occurred", <<>>, <<>>)

\* build_group_list(config): one request, the groups in the order received
BuildGroupList ==
    /\ script = "gitlab"
    /\ fn = "build_group_list"
    /\ pc = "first"
    /\ \E o \in GitlabOutcomes :
          /\ requests' = Append(requests, Request(<<"groups">>, GitlabHeaders, o))
          /\ retval' = IF o = "200" THEN pages[1] ELSE <<>>
          /\ printed' = CASE o = "200" -> Append(printed, Line("Successfully retrieved", <<>>, <<>>))
                          [] o = "500" -> Append(printed, Line("Failed to retrieve registries", <<>>, <<>>))
                          [] OTHER -> Append(printed, ExceptLine(o))
    /\ pc' = "done"
    /\ UNCHANGED <<fn, tag_pattern, pages, cursor, acc>>
    /\ UNCHANGED notExplore

\* explore_container_registry: the request for the repositories of the project
RegistryRequest ==
    /\ script = "gitlab"
    /\ fn = "explore_container_registry"
    /\ pc = "first"
    /\ \E o \in GitlabOutcomes :
          /\ requests' = Append(requests, Request(<<"repositories">>, GitlabHeaders, o))
          /\ pc' = IF o = "200" THEN "loop" ELSE "done"
          /\ cursor' = IF o = "200" THEN 1 ELSE cursor
          /\ printed' = CASE o = "200" -> printed
                          [] o = "500" -> Append(printed, Line("Failed to access registry", <<>>, <<>>))
                          [] OTHER -> Append(printed, ExceptLine(o))
    /\ UNCHANGED <<fn, tag_pattern, pages, acc, retval>>
    /\ UNCHANGED notExplore

\* explore_container_registry, summary view: the tags request of one repository
TagsRequest ==
    /\ script = "gitlab"
    /\ pc = "loop"
    /\ cursor <= Len(pages[1])
    /\ \E o \in GitlabOutcomes :
          /\ requests' = Append(requests, Request(<<"tags", cursor>>, GitlabHeaders, o))
          /\ CASE o = "200" ->
                    /\ acc' = Append(acc, pages[1][cursor])
                    /\ cursor' = cursor + 1
                    /\ UNCHANGED <<pc, printed>>
               [] o = "500" ->
                    /\ cursor' = cursor + 1
                    /\ UNCHANGED <<acc, pc, printed>>
               [] OTHER ->
                    /\ printed' = Append(printed, ExceptLine(o))
                    /\ pc' = "done"
                    /\ UNCHANGED <<acc, cursor>>
    /\ UNCHANGED <<fn, tag_pattern, pages, retval>>
    /\ UNCHANGED notExplore

\* explore_container_registry: the summary is printed, sorted by package name
PrintSummary ==
    /\ script = "gitlab"
    /\ pc = "loop"
    /\ cursor > Len(pages[1])
    /\ printed' = printed \o [k \in 1..Len(acc) |-> Line("package", Sorted(acc)[k], <<>>)]
    /\ pc' = "done"
    /\ UNCHANGED <<fn, tag_pattern, pages, cursor, acc, retval, requests>>
    /\ UNCHANGED notExplore

InitGitlab ==
    /\ script = "gitlab"
    /\ IdleRest
    /\ IdlePush
    /\ IdleNifi
    /\ execute = FALSE
    /\ remove_old = FALSE
    /\ config = [image_names |-> <<>>, image_tags |-> <<>>]
    /\ found_images = FALSE
    /\ local = {}
    /\ images = <<>>
    /\ idx = 1
    /\ calls = NoCalls
    /\ printed = <<>>
    /\ fn \in {"build_group_list", "explore_container_registry"}
    /\ tag_pattern = <<>>
    /\ pages \in [1..1 -> PageResults]
    /\ cursor = 0
    /\ acc = <<>>
    /\ retval = <<>>
    /\ requests = <<>>
    /\ pc = "first"

NextGitlab ==
    \/ BuildGroupList
    \/ RegistryRequest
    \/ TagsRequest
    \/ PrintSummary

\* registry discovery: the Docker Hub listings and the GitLab explorer
InitDiscovery == InitExplore \/ InitGitlab

NextDiscovery == NextExplore \/ NextGitlab

SpecDiscovery == InitDiscovery /\ [][NextDiscovery]_vars

\* the requests sent to the url of request k
SameUrl(k) == {j \in 1..Len(requests) : requests[j].url = requests[k].url}

\* C11: a timeout or a connection failure of a registry request is surfaced to
\* the caller of the listing operation as an error kind of its own - the value
\* returned differs from the empty list of an empty but complete result - and
\* the failed request is not sent again.
C11_TimeoutAndConnectionErrorSurfaced ==
    (/\ script \in {"explore", "gitlab"}
     /\ fn \in {"get_all_packages", "list_tags", "get_image_details", "build_group_list"}
     /\ pc = "done"
     /\ requests # <<>>
     /\ Last(requests).status \in {"Timeout", "ConnectionError"})
    => /\ retval # <<>>
       /\ SameUrl(Len(requests)) = {Len(requests)}

----------------------------------------------------------------------------
\* 01_pull_from_microfocusidolserver.py: pull_images and the SIGINT handler.
\*
\* signal.signal(SIGINT, signal_handler) replaces the default handler, so a
\* SIGINT never raises KeyboardInterrupt: it only runs signal_handler, between
\* any two steps of pull_images or while subprocess.run waits for docker pull.

\* default_packages of main(), or the lines of --packages-file
PackageNames == <<"content", "category", "community", "find">>

\* default_versions of main(), or the lines of --versions-file
VersionNames == <<"24.4", "25.1", "25.2", "25.3">>

\* everything pull_images leaves alone
notPull == <<token, images, single_image, run, idx, depth, locals, log_file,
             lastRun, calls, runPushes, seen, history, nChunks, execute,
             remove_old, config, found_images, local, nifiVars, exploreVars,
             disk, patchVars, findVars, progressVars, args>>

\* image = f"{registry}/{package}:{version}"
PullImage == <<"docker.io/microfocusidolserver", "/", pull_packages[pkg], ":",
               pull_versions[ver]>>

\* signal_handler(signum, frame)
Interrupt ==
    /\ script = "pull"
    /\ pc # "returned"
    /\ ~interrupted
    /\ printed' = Append(printed, "Interrupt received")
    /\ interrupted' = TRUE
    /\ flagIter' = iter
    /\ UNCHANGED <<script, dry_run, pc, pull_packages, pull_versions, pkg, ver,
                   iter, pulls, success, failed_pulls, pull_result, notPull,
                   exit_code>>

\* pull_images up to the loops: check_docker_available, check_existing_auth
\* or docker_login; any of them failing returns False
PullAuth ==
    /\ script = "pull"
    /\ pc = "auth"
    /\ \E ok \in BOOLEAN :
          IF ok
          THEN /\ success' = TRUE
               /\ failed_pulls' = <<>>
               /\ pkg' = 1
               /\ pc' = "package"
               /\ UNCHANGED <<printed, pull_result, exit_code>>
          ELSE /\ printed' = Append(printed, "Cannot proceed")
               /\ pull_result' = "False"
               /\ exit_code' = 1
               /\ pc' = "returned"
               /\ UNCHANGED <<success, failed_pulls, pkg>>
    /\ UNCHANGED <<script, dry_run, interrupted, pull_packages, pull_versions,
                   ver, iter, flagIter, pulls, notPull>>

\* for package in packages: if interrupted: ... break
PackageCheck ==
    /\ script = "pull"
    /\ pc = "package"
    /\ IF pkg > Len(pull_packages)
       THEN /\ pc' = "report"
            /\ UNCHANGED <<printed, ver>>
       ELSE IF interrupted
            THEN /\ printed' = Append(printed, "Operation cancelled by user")
                 /\ pc' = "report"
                 /\ UNCHANGED ver
            ELSE /\ ver' = 1
                 /\ pc' = "version"
                 /\ UNCHANGED printed
    /\ UNCHANGED <<script, dry_run, interrupted, pull_packages, pull_versions,
                   pkg, iter, flagIter, pulls, success, failed_pulls,
                   pull_result, notPull,
                   exit_code>>

\* for version in versions: if interrupted: ... break, up to the dry-run line
\* or the "Pulling from" line of the iteration
VersionCheck_IgnoresFlag ==
    /\ script = "pull"
    /\ pc = "version"
    /\ IF ver > Len(pull_versions)
       THEN /\ pkg' = pkg + 1
            /\ pc' = "package"
            /\ UNCHANGED <<printed, ver, iter>>
       ELSE /\ iter' = iter + 1
            /\ IF dry_run
               THEN /\ printed' = Append(printed, "[DRY RUN] Would pull")
                    /\ ver' = ver + 1
                    /\ UNCHANGED <<pkg, pc>>
               ELSE /\ printed' = Append(printed, "Pulling from")
                    /\ pc' = "pull"
                    /\ UNCHANGED <<pkg, ver>>
    /\ UNCHANGED <<script, dry_run, interrupted, pull_packages, pull_versions,
                   flagIter, pulls, success, failed_pulls, pull_result, notPull,
                   exit_code>>

VersionCheck ==
    /\ script = "pull"
    /\ pc = "version"
    /\ IF ver > Len(pull_versions)
       THEN /\ pkg' = pkg + 1
            /\ pc' = "package"
            /\ UNCHANGED <<printed, ver, iter>>
       ELSE /\ iter' = iter + 1
            /\ IF interrupted
               THEN /\ printed' = Append(printed, "Operation cancelled by user")
                    /\ pkg' = pkg + 1
                    /\ pc' = "package"
                    /\ UNCHANGED ver
               ELSE IF dry_run
                    THEN /\ printed' = Append(printed, "[DRY RUN] Would pull")
                         /\ ver' = ver + 1
                         /\ UNCHANGED <<pkg, pc>>
                    ELSE /\ printed' = Append(printed, "Pulling from")
                         /\ pc' = "pull"
                         /\ UNCHANGED <<pkg, ver>>
    /\ UNCHANGED <<script, dry_run, interrupted, pull_packages, pull_versions,
                   flagIter, pulls, success, failed_pulls, pull_result, notPull,
                   exit_code>>

\* subprocess.run(['docker', 'pull', image], ...) starts the pull
PullRun ==
    /\ script = "pull"
    /\ pc = "pull"
    /\ pulls' = Append(pulls, [image |-> PullImage, iter |-> iter])
    /\ pc' = "pulling"
    /\ UNCHANGED <<script, dry_run, printed, interrupted, pull_packages,
                   pull_versions, pkg, ver, iter, flagIter, success,
                   failed_pulls, pull_result, notPull,
                   exit_code>>

\* subprocess.run returns, or raises CalledProcessError
PullFinish ==
    /\ script = "pull"
    /\ pc = "pulling"
    /\ \E ok \in BOOLEAN :
          IF ok
          THEN /\ printed' = Append(printed, "Successfully pulled image")
               /\ UNCHANGED <<success, failed_pulls>>
          ELSE /\ printed' = Append(printed, "Failed to pull image")
               /\ failed_pulls' = Append(failed_pulls, pull_packages[pkg])
               /\ success' = FALSE
    /\ ver' = ver + 1
    /\ pc' = "version"
    /\ UNCHANGED <<script, dry_run, interrupted, pull_packages, pull_versions,
                   pkg, iter, flagIter, pulls, pull_result, notPull,
                   exit_code>>

\* if not success: ...; return success
PullReport ==
    /\ script = "pull"
    /\ pc = "report"
    /\ printed' = IF success THEN printed
                  ELSE Append(printed, "The following packages failed to pull")
    /\ pull_result' = IF success THEN "True" ELSE "False"
    /\ exit_code' = IF success THEN 0 ELSE 1
    /\ pc' = "returned"
    /\ UNCHANGED <<script, dry_run, interrupted, pull_packages, pull_versions,
                   pkg, ver, iter, flagIter, pulls, success, failed_pulls,
                   notPull>>

InitPull ==
    /\ script = "pull"
    /\ token = FALSE
    /\ images = <<>>
    /\ idx = 1
    /\ calls = NoCalls
    /\ single_image = <<>>
    /\ run = 1
    /\ depth = 0
    /\ locals = InitLocals
    /\ log_file = <<>>
    /\ lastRun = [jobs |-> 0, allPushed |-> FALSE]
    /\ runPushes = 0
    /\ seen = NoneSeen
    /\ history = <<>>
    /\ nChunks = 0
    /\ IdleRetag
    /\ IdleNifi
    /\ IdleExplore
    /\ IdlePatch
    /\ IdleFind
    /\ IdleProgress
    /\ disk = <<>>
    /\ args = NoArgs
    /\ exit_code = -1
    /\ dry_run \in BOOLEAN
    /\ pc = "auth"
    /\ interrupted = FALSE
    /\ pull_packages \in {SubSeq(PackageNames, 1, n) : n \in 0..MaxPackages}
    /\ pull_versions \in {SubSeq(VersionNames, 1, n) : n \in 0..MaxVersions}
    /\ pkg = 0
    /\ ver = 0
    /\ iter = 0
    /\ flagIter = -1
    /\ pulls = <<>>
    /\ success = TRUE
    /\ failed_pulls = <<>>
    /\ pull_result = "none"

\* the steps of pull_images itself
PullStep ==
    \/ PullAuth
    \/ PackageCheck
    \/ VersionCheck
    \/ PullRun
    \/ PullFinish
    \/ PullReport

NextPull ==
    \/ Interrupt
    \/ PullStep

\* the interpreter keeps running pull_images, and a docker pull that was
\* started comes back
SpecPull == InitPull /\ [][NextPull]_vars /\ WF_vars(PullStep)

\* the pulls started in an iteration later than the one the flag was set in
LatePulls == {k \in 1..Len(pulls) : pulls[k].iter > flagIter}

\* C17: once signal_handler has set the flag, no docker pull is started in any
\* later iteration of the version loop, for this package or a later one; the
\* pull in flight finishes and pull_images then returns.
C17_NoPullAfterInterrupt ==
    /\ [](interrupted => LatePulls = {})
    /\ (interrupted ~> pc = "returned")

\* the flag was set while a pull was under way with jobs left; that pull
\* finished, nothing else was pulled, and pull_images returned
C17_Witness ==
    /\ script = "pull"
    /\ pc = "returned"
    /\ interrupted
    /\ pulls # <<>>
    /\ pulls[Len(pulls)].iter = flagIter
    /\ Len(pulls) < Len(pull_packages) * Len(pull_versions)
    /\ \E k \in 1..(Len(printed) - 2) :
          /\ printed[k] = "Pulling from"
          /\ printed[k + 1] = "Interrupt received"
          /\ printed[k + 2] = "Successfully pulled image"

----------------------------------------------------------------------------
\* docker-vulnerabilities/docker_patch.py: patch_docker_image, cleanup_containers
\* and the signal handler of main.

\* the lines of --images-file
ImageSpecs == <<"img:1", "img:2", "img:3">>

\* the lists --rpms-file can hold: for each RPM file, whether it exists
RpmLists ==
    UNION {[1..n -> BOOLEAN] : n \in 0..MaxRpms}

\* everything docker_patch.py leaves alone
notPatch == <<script, token, single_image, run, depth, locals, log_file, lastRun, calls,
              runPushes, seen, history, nChunks, execute, remove_old, config,
              found_images, local, images_to_push, remote, exploreVars, pullVars,
              disk, findVars, progressVars, args>>

\* the steps of the inner try block of patch_docker_image, in order
BodySteps == <<"verify", "put_archive", "start", "install", "commit">>

\* a call on the temporary container of image i: code is the exit code of an
\* exec_run, 0 for any other call that returned, -1 for a call that raised
PatchCall(name, i, r, code) == [call |-> name, image |-> i, rpm |-> r, code |-> code]

\* a line of the logger about image i
PatchLine(text, i) == [line |-> text, image |-> i]

\* the verification of the RPM files left out
AllRpmsExist_Unchecked == TRUE

\* for rpm_file in rpm_files: if not rpm_path.exists(): raise FileNotFoundError
AllRpmsExist == \A k \in 1..Len(rpm_files) : rpm_files[k]

\* container.stop(); container.remove() inside one try (lines 70-75, 153-159):
\* the states a container can be left in. stop() raising skips remove(); a
\* container that is gone makes stop() raise NotFound.
StopRemove(state) ==
    IF state = "removed" THEN {"removed"}
    ELSE {state, "stopped", "removed"}

\* cleanup_containers(client, logger): containers.list may raise; otherwise
\* every patch_temp container is stopped and removed, each in its own try
cleanup_containers(cs) ==
    {cs} \cup {f \in [1..Len(cs) -> {"created", "running", "stopped", "removed"}] :
                 \A k \in 1..Len(cs) : f[k] \in StopRemove(cs[k])}

\* main up to the loop: the first cleanup_containers and load_config, whose
\* exception main answers with sys.exit(1)
PatchBegin ==
    /\ script = "patch"
    /\ pc = "begin"
    /\ containers' \in cleanup_containers(containers)
    /\ \E ok \in BOOLEAN :
          IF ok
          THEN pc' = "loop" /\ UNCHANGED exit_code
          ELSE pc' = "final_cleanup" /\ exit_code' = 1
    /\ UNCHANGED <<dry_run, images, idx, container, exiting, success_count,
                   rpm_files, rpm, printed, clientCalls, notPatch>>

\* for image_spec in images_list, and the dry-run branch of patch_docker_image
PatchNext ==
    /\ script = "patch"
    /\ pc = "loop"
    /\ IF idx > Len(images)
       THEN /\ pc' = "final_cleanup"
            /\ UNCHANGED <<idx, container, success_count, printed>>
       ELSE IF dry_run
            THEN /\ idx' = idx + 1
                 /\ success_count' = IF AllRpmsExist THEN success_count + 1
                                     ELSE success_count
                 /\ printed' = Append(printed,
                                      IF AllRpmsExist
                                      THEN PatchLine("[DRY-RUN] Would create new image", idx)
                                      ELSE PatchLine("Failed to patch", idx))
                 /\ UNCHANGED <<pc, container>>
            ELSE /\ pc' = "create"
                 /\ container' = 0
                 /\ UNCHANGED <<idx, success_count, printed>>
    /\ UNCHANGED <<dry_run, images, containers, exiting, rpm_files, rpm,
                   clientCalls, exit_code, notPatch>>

\* client.images.get / pull and client.containers.create: any of them may
\* raise, which patch_docker_image turns into return False
PatchCreate ==
    /\ script = "patch"
    /\ pc = "create"
    /\ \E ok \in BOOLEAN :
          IF ok
          THEN /\ containers' = Append(containers, "created")
               /\ container' = Len(containers) + 1
               /\ pc' = BodySteps[1]
               /\ UNCHANGED <<idx, printed>>
          ELSE /\ idx' = idx + 1
               /\ pc' = "loop"
               /\ printed' = Append(printed, PatchLine("Failed to patch", idx))
               /\ UNCHANGED <<containers, container>>
    /\ UNCHANGED <<dry_run, images, exiting, success_count, rpm_files, rpm,
                   clientCalls, exit_code, notPatch>>

\* one step of the inner try block: the RPM files are verified, the archive
\* is copied, the container is started, one RPM is installed, or the RPMs are
\* deleted and the container is committed; a step that raises goes to the finally
PatchBody ==
    /\ script = "patch"
    /\ \/ /\ pc = "verify"
          /\ pc' = IF AllRpmsExist THEN "put_archive" ELSE "finally"
          /\ UNCHANGED <<containers, rpm, clientCalls>>
       \/ /\ pc = "put_archive"
          /\ \E ok \in BOOLEAN : pc' = IF ok THEN "start" ELSE "finally"
          /\ UNCHANGED <<containers, rpm, clientCalls>>
       \/ /\ pc = "start"
          /\ \E ok \in BOOLEAN :
                IF ok
                THEN /\ containers' = [containers EXCEPT ![container] = "running"]
                     /\ clientCalls' = Append(clientCalls, PatchCall("start", idx, 0, 0))
                     /\ rpm' = 1
                     /\ pc' = "install"
                ELSE /\ clientCalls' = Append(clientCalls, PatchCall("start", idx, 0, -1))
                     /\ pc' = "finally"
                     /\ UNCHANGED <<containers, rpm>>
       \/ /\ pc = "install"
          /\ IF rpm > Len(rpm_files)
             THEN /\ pc' = "commit"
                  /\ UNCHANGED <<rpm, clientCalls>>
             ELSE \E code \in {0, 1, -1} :
                     /\ clientCalls' = Append(clientCalls,
                                              PatchCall("install", idx, rpm, code))
                     /\ IF code = 0
                        THEN rpm' = rpm + 1 /\ UNCHANGED pc
                        ELSE pc' = "finally" /\ UNCHANGED rpm
          /\ UNCHANGED containers
       \/ /\ pc = "commit"
          /\ \E ok \in BOOLEAN :
                IF ok
                THEN /\ clientCalls' = Append(clientCalls, PatchCall("commit", idx, 0, 0))
                     /\ pc' = "finally_ok"
                ELSE /\ clientCalls' = Append(clientCalls, PatchCall("commit", idx, 0, -1))
                     /\ pc' = "finally"
          /\ UNCHANGED <<containers, rpm>>
    /\ UNCHANGED <<dry_run, images, idx, container, exiting, success_count,
                   rpm_files, printed, exit_code, notPatch>>

\* finally: container.stop(); container.remove(), then return True, or the
\* exception handler's return False, or the SystemExit of the signal
\* handler going on to main
PatchFinally ==
    /\ script = "patch"
    /\ pc \in {"finally", "finally_ok"}
    /\ \E st \in StopRemove(containers[container]) :
          containers' = [containers EXCEPT ![container] = st]
    /\ IF exiting
       THEN /\ pc' = "final_cleanup"
            /\ UNCHANGED <<idx, success_count, printed>>
       ELSE /\ pc' = "loop"
            /\ idx' = idx + 1
            /\ success_count' = IF pc = "finally_ok" THEN success_count + 1
                                ELSE success_count
            /\ printed' = IF pc = "finally_ok" THEN printed
                          ELSE Append(printed, PatchLine("Failed to patch", idx))
    /\ UNCHANGED <<dry_run, images, container, exiting, rpm_files, rpm,
                   clientCalls, exit_code, notPatch>>

\* main: finally: cleanup_containers(client, logger); the process then ends
\* with the status of a sys.exit that is under way, or with 0
FinalCleanup ==
    /\ script = "patch"
    /\ pc = "final_cleanup"
    /\ containers' \in cleanup_containers(containers)
    /\ pc' = "exit"
    /\ exit_code' = IF exit_code = -1 THEN 0 ELSE exit_code
    /\ UNCHANGED <<dry_run, images, idx, container, exiting, success_count,
                   rpm_files, rpm, printed, clientCalls, notPatch>>

\* signal_handler of main on SIGINT or SIGTERM: cleanup_containers, then
\* sys.exit(1), whose SystemExit runs the finally blocks it passes through
PatchSignal ==
    /\ script = "patch"
    /\ pc # "exit"
    /\ ~exiting
    /\ containers' \in cleanup_containers(containers)
    /\ exiting' = TRUE
    /\ exit_code' = 1
    /\ pc' = IF \E k \in 1..Len(BodySteps) : pc = BodySteps[k] THEN "finally"
             ELSE IF pc = "final_cleanup" THEN "exit"
             ELSE "final_cleanup"
    /\ UNCHANGED <<dry_run, images, idx, container, success_count, rpm_files,
                   rpm, printed, clientCalls, notPatch>>

InitPatch ==
    /\ script = "patch"
    /\ token = FALSE
    /\ idx = 1
    /\ calls = NoCalls
    /\ single_image = <<>>
    /\ run = 1
    /\ depth = 0
    /\ locals = InitLocals
    /\ log_file = <<>>
    /\ lastRun = [jobs |-> 0, allPushed |-> FALSE]
    /\ runPushes = 0
    /\ seen = NoneSeen
    /\ history = <<>>
    /\ nChunks = 0
    /\ IdleRetag
    /\ IdleNifi
    /\ IdleExplore
    /\ IdlePull
    /\ IdleFind
    /\ IdleProgress
    /\ disk = <<>>
    /\ args = NoArgs
    /\ exit_code = -1
    /\ dry_run \in BOOLEAN
    /\ images \in {SubSeq(ImageSpecs, 1, n) : n \in 1..MaxImages}
    /\ rpm_files \in RpmLists
    /\ rpm = 0
    /\ success_count = 0
    /\ pc = "begin"
    /\ containers = <<>>
    /\ container = 0
    /\ exiting = FALSE

NextPatch ==
    \/ PatchBegin
    \/ PatchNext
    \/ PatchCreate
    \/ PatchBody
    \/ PatchFinally
    \/ FinalCleanup
    \/ PatchSignal

SpecPatch == InitPatch /\ [][NextPatch]_vars

\* C20: every temporary container patch_docker_image created has been stopped
\* and removed when the run ends, on every path, a failing stop call and an
\* operator interrupt included (a container whose stop succeeded and whose
\* remove call itself failed is left aside).
C20_ContainersRemovedAtExit ==
    (script = "patch" /\ pc = "exit")
    => \A k \in 1..Len(containers) : containers[k] \in {"removed", "stopped"}

\* the positions of the calls of one kind on the container of image i
PatchCallsOf(name, i) ==
    {k \in 1..Len(clientCalls) :
        clientCalls[k].call = name /\ clientCalls[k].image = i}

\* patch_docker_image(image i) has returned False
ReturnedFalse(i) ==
    \E j \in 1..Len(printed) : printed[j] = PatchLine("Failed to patch", i)

\* C29: in live mode the new image is committed only after the container was
\* started and every listed RPM was installed with exit code 0, in list order;
\* a missing RPM file leaves the container unstarted and nothing installed,
\* the first install that does not exit with 0 is the last call on the
\* container, and in both cases no commit is made and the function returns
\* False.
C29_CommitOnlyAfterAllInstalls ==
    script = "patch" =>
        \A i \in 1..Len(images) :
            /\ \A c \in PatchCallsOf("commit", i) :
                  /\ \A r \in 1..Len(rpm_files) : rpm_files[r]
                  /\ \E s \in PatchCallsOf("start", i) :
                        /\ clientCalls[s].code = 0
                        /\ c = s + Len(rpm_files) + 1
                        /\ \A r \in 1..Len(rpm_files) :
                              clientCalls[s + r] = PatchCall("install", i, r, 0)
            /\ (\E r \in 1..Len(rpm_files) : ~rpm_files[r])
               => /\ PatchCallsOf("start", i) = {}
                  /\ PatchCallsOf("install", i) = {}
                  /\ PatchCallsOf("commit", i) = {}
                  /\ (idx > i /\ ~dry_run) => ReturnedFalse(i)
            /\ \A k \in PatchCallsOf("install", i) :
                  clientCalls[k].code # 0
                  => /\ \A m \in PatchCallsOf("install", i) \cup PatchCallsOf("commit", i) :
                           m <= k
                     /\ idx > i => ReturnedFalse(i)

\* the first image was committed after two installs, the second one has
\* returned False after its first install failed
C29_Witness ==
    /\ script = "patch"
    /\ Len(rpm_files) = 2
    /\ idx = 3
    /\ PatchCallsOf("commit", 1) # {}
    /\ \E k \in PatchCallsOf("install", 2) : clientCalls[k].code = 1
    /\ ReturnedFalse(2)

----------------------------------------------------------------------------
\* idol-images-transfer/02_retag_idolserver_images.py: retag_images.
\* retag_images of 02_retag_idolserver_images.py is the same loop without the
\* tag and package options (source_tag, target_tag, package_pattern = None).
\* Image references are sequences of characters, each with its ':tag' as the
\* Docker daemon lists them.

\* NEW_REPO
NewRepo == <<"n">>

\* OLD_REPO: a bare namespace, a path with '/', a registry host with a port
OldRepos == {<<"o">>, <<"r", "/", "o">>, <<"h", ":", "5">>}

RefOC1 == <<"o", "/", "c", ":", "1">>
RefOD2 == <<"o", "/", "d", ":", "2">>
RefXC1 == <<"x", "/", "c", ":", "1">>
RefROC1 == <<"r", "/", "o", "/", "c", ":", "1">>
RefH5C1 == <<"h", ":", "5", "/", "c", ":", "1">>

\* local image sets of the idol retag script
IdolImageSets ==
    {<< <<RefOC1>>, <<RefOD2, RefXC1>> >>,
     << <<RefROC1>>, <<RefOC1>> >>,
     << <<RefH5C1, RefOD2>> >>}

\* the command lines main lets through: --source-tag and --target-tag are
\* given together or not at all
ArgSets ==
    {[old_repo |-> r, source_tag |-> t[1], target_tag |-> t[2], package_pattern |-> p] :
        r \in OldRepos,
        t \in {<< <<>>, <<>> >>, << <<"1">>, <<"9">> >>},
        p \in {<<>>, <<"c", "*">>}}

\* matches_pattern(package_name, pattern)
matches_pattern(package_name, pattern) ==
    pattern = <<>> \/ FnMatch(Lower(package_name), Lower(pattern))

\* retag_images up to its loop: client.images.list(), whose APIError the
\* function answers with sys.exit(1)
IdolRetagBegin ==
    /\ script = "idol_retag"
    /\ pc = "list"
    /\ \E ok \in BOOLEAN :
          IF ok
          THEN pc' = "scan" /\ UNCHANGED <<printed, exit_code>>
          ELSE /\ pc' = "end"
               /\ printed' = Append(printed, Line("Docker API error", <<>>, <<>>))
               /\ exit_code' = 1
    /\ UNCHANGED <<script, token, images, idx, calls, pushOnly, execute, remove_old,
                   config, found_images, local, nifiVars, exploreVars, pullVars, disk,
                   patchVars, findVars, progressVars, args>>

\* retag_images: one iteration of "for image in images: for tag in image.tags"
IdolRetagStep ==
    /\ script = "idol_retag"
    /\ pc = "scan"
    /\ idx <= Len(Jobs)
    /\ LET tag == Jobs[idx]
           package_name == Split(Split(tag, "/")[2], ":")[1]
           current_tag == Split(tag, ":")[2]
           final_tag == IF args.target_tag # <<>> THEN args.target_tag ELSE current_tag
           new_image == NewImage(NewRepo, package_name, final_tag)
       IN  IF \/ ~StartsWith(tag, args.old_repo \o <<"/">>)
              \/ args.source_tag # <<>> /\ current_tag # args.source_tag
              \/ ~matches_pattern(package_name, args.package_pattern)
           THEN UNCHANGED <<found_images, printed, clientCalls, local>>
           ELSE /\ found_images' = TRUE
                /\ IF ~execute
                   THEN /\ printed' = Append(printed, Line("[DRY-RUN] Retagging", tag, new_image))
                        /\ UNCHANGED <<clientCalls, local>>
                   ELSE \E o \in [tag : {"ok", "APIError"}, remove : {"ok", "APIError"}] :
                          IF o.tag = "APIError"
                          THEN /\ clientCalls' = Append(clientCalls, Call("tag", tag, o.tag))
                               /\ printed' = printed \o <<Line("Retagging", tag, new_image),
                                                          Line("Error retagging", tag, new_image)>>
                               /\ UNCHANGED local
                          ELSE IF ~remove_old
                          THEN /\ clientCalls' = Append(clientCalls, Call("tag", tag, o.tag))
                               /\ printed' = Append(printed, Line("Retagging", tag, new_image))
                               /\ local' = local \cup {new_image}
                          ELSE /\ clientCalls' = clientCalls \o <<Call("tag", tag, o.tag),
                                                                  Call("remove", tag, o.remove)>>
                               /\ printed' = printed
                                    \o <<Line("Retagging", tag, new_image),
                                         Line("Removing old tag", tag, new_image)>>
                                    \o IF o.remove = "ok" THEN <<>>
                                       ELSE <<Line("Error retagging", tag, new_image)>>
                               /\ local' = IF o.remove = "ok"
                                           THEN (local \cup {new_image}) \ {tag}
                                           ELSE local \cup {new_image}
    /\ idx' = idx + 1
    /\ UNCHANGED <<script, token, images, pc, calls, pushOnly, execute, remove_old,
                   config, images_to_push, remote, exploreVars, restVars>>

\* the loop of retag_images is exhausted: the report of a run that found nothing
IdolRetagEnd ==
    /\ script = "idol_retag"
    /\ pc = "scan"
    /\ idx > Len(Jobs)
    /\ pc' = "end"
    /\ printed' = IF found_images THEN printed
                  ELSE printed
                       \o <<Line("No images found from repository", <<>>, <<>>)>>
                       \o IF args.package_pattern # <<>>
                          THEN <<Line("Package filter", <<>>, <<>>)>>
                          ELSE <<>>
    /\ UNCHANGED <<script, token, images, idx, calls, pushOnly, execute, remove_old,
                   config, found_images, local, nifiVars, exploreVars, restVars>>

InitIdolRetag ==
    /\ script = "idol_retag"
    /\ IdlePush
    /\ IdleNifi
    /\ IdleExplore
    /\ IdlePull
    /\ IdlePatch
    /\ IdleFind
    /\ IdleProgress
    /\ disk = <<>>
    /\ exit_code = -1
    /\ config = [image_names |-> <<>>, image_tags |-> <<>>]
    /\ args \in ArgSets
    /\ execute \in BOOLEAN
    /\ remove_old \in BOOLEAN
    /\ images \in IdolImageSets
    /\ local = {Flatten(images)[k] : k \in 1..Len(Flatten(images))}
    /\ found_images = FALSE
    /\ printed = <<>>
    /\ idx = 1
    /\ pc = "list"
    /\ calls = NoCalls

NextIdolRetag ==
    \/ IdolRetagBegin
    \/ IdolRetagStep
    \/ IdolRetagEnd

SpecIdolRetag == InitIdolRetag /\ [][NextIdolRetag]_vars

\* the reference '<new_repo>/<package>:<tag>' for a source reference
\* '<old_repo>/<package>:<tag>': the package is what stands between the
\* repository prefix and the last ':', the tag is what follows the last ':'
ExpectedTarget(tag) ==
    LET colon == CHOOSE i \in 1..Len(tag) :
                    tag[i] = ":" /\ \A j \in (i + 1)..Len(tag) : tag[j] # ":"
        package == SubSeq(tag, Len(args.old_repo) + 2, colon - 1)
        src_tag == SubSeq(tag, colon + 1, Len(tag))
    IN  NewRepo \o <<"/">> \o package \o <<":">>
          \o (IF args.target_tag # <<>> THEN args.target_tag ELSE src_tag)

\* C26: every retagged image gets the target reference
\* '<new_repo>/<package>:<tag>' of its source '<old_repo>/<package>:<tag>'
\* ('<new_repo>/<package>:<target_tag>' under a tag transformation), for a
\* source repository with '/' in its path or ':port' in its host as well.
C26_TargetFromPackageAndTag ==
    script = "idol_retag" =>
        \A k \in 1..Len(printed) :
            printed[k].line \in {"Retagging", "[DRY-RUN] Retagging"}
            => printed[k].new_image = ExpectedTarget(printed[k].tag)

----------------------------------------------------------------------------
\* docker-vulnerabilities/find_package.py: scan_repo and main.
\* An href is a sequence of tokens; a package index is a sequence of hrefs.

HrefKrb120 == <<"krb5-libs", "-", "1.20", ".el9", ".rpm">>
HrefKrb121 == <<"krb5-libs", "-", "1.21", ".el9", ".rpm">>
\* contains krb5-libs and ends with .rpm, but does not start with krb5-libs-
HrefDevel == <<"python3-", "krb5-libs", "-", "1.21", ".el9", ".rpm">>
HrefBash == <<"bash", "-", "5.1", ".el9", ".rpm">>

\* what a mirror answers: an error (HTTP status, timeout), or its index page
RepoAnswers ==
    {[ok |-> FALSE, links |-> <<>>],
     [ok |-> TRUE, links |-> <<HrefBash>>],
     [ok |-> TRUE, links |-> <<HrefKrb120, HrefBash, HrefDevel>>],
     [ok |-> TRUE, links |-> <<HrefKrb121, HrefKrb120>>]}

\* parse_rpm_version(rpm_name): the version, or <<>> for None
parse_rpm_version(rpm_name) ==
    IF /\ Len(rpm_name) >= 5
       /\ rpm_name[1] = "krb5-libs"
       /\ rpm_name[2] = "-"
       /\ rpm_name[3] \in {"1.20", "1.21"}
       /\ rpm_name[4] = ".el9"
       /\ Last(rpm_name) = ".rpm"
    THEN <<rpm_name[3]>>
    ELSE <<>>

\* the package scan_repo builds for an href of mirror i
Package(href, i) == [name |-> href, version |-> parse_rpm_version(href)[1], repo |-> i]

RECURSIVE ScanLinks(_, _)
\* for link in soup.find_all('a'): ... packages.append(...)
ScanLinks(links, i) ==
    IF links = <<>> THEN <<>>
    ELSE LET href == Head(links)
         IN  (IF /\ Contains(<<"krb5-libs">>, href)
                 /\ Last(href) = ".rpm"
                 /\ parse_rpm_version(href) # <<>>
              THEN <<Package(href, i)>>
              ELSE <<>>) \o ScanLinks(Tail(links), i)

\* scan_repo(repo_url): any exception is answered with []
scan_repo(i) ==
    IF repos[i].ok THEN ScanLinks(repos[i].links, i) ELSE <<>>

\* version.parse(x['version']) as a rank
VersionRank(v) == IF v = "1.20" THEN 120 ELSE 121

RECURSIVE InsertByVersion(_, _)
\* where a stable sort in descending version order puts x among the sorted q:
\* behind every element that is not smaller
InsertByVersion(x, q) ==
    IF q = <<>> THEN <<x>>
    ELSE IF VersionRank(Head(q).version) >= VersionRank(x.version)
    THEN <<Head(q)>> \o InsertByVersion(x, Tail(q))
    ELSE <<x>> \o q

RECURSIVE SortByVersion(_)
\* all_packages.sort(key=lambda x: version.parse(x['version']), reverse=True)
SortByVersion(q) ==
    IF q = <<>> THEN <<>>
    ELSE InsertByVersion(q[Len(q)], SortByVersion(SubSeq(q, 1, Len(q) - 1)))

\* everything find_package.py leaves alone
notFind == <<script, token, images, idx, calls, pushOnly, retagVars, nifiVars,
             exploreVars, pullVars, disk, patchVars, progressVars, exit_code, args>>

\* a worker thread of the pool picks up the task of mirror i
WorkerStart ==
    /\ script = "find"
    /\ \E i \in 1..Len(futures) :
          /\ futures[i].state = "pending"
          /\ futures' = [futures EXCEPT ![i].state = "running"]
    /\ UNCHANGED <<pc, repos, all_packages, consumed, notFind>>

\* scan_repo of mirror i returns; rank records the order of completion
WorkerFinish ==
    /\ script = "find"
    /\ \E i \in 1..Len(futures) :
          /\ futures[i].state = "running"
          /\ futures' = [futures EXCEPT
                            ![i] = [state |-> "done", result |-> scan_repo(i),
                                    rank |-> 1 + Cardinality({j \in 1..Len(futures) :
                                                               futures[j].state = "done"})]]
    /\ UNCHANGED <<pc, repos, all_packages, consumed, notFind>>

\* the loop takes the next result without waiting for its task
MapNext_NoWait ==
    /\ script = "find"
    /\ pc = "map"
    /\ consumed < Len(futures)
    /\ all_packages' = all_packages \o futures[consumed + 1].result
    /\ consumed' = consumed + 1
    /\ UNCHANGED <<pc, repos, futures, notFind>>

\* for packages in results: all_packages.extend(packages); executor.map
\* yields the results in the order of REPOS, each once its task is done
MapNext ==
    /\ script = "find"
    /\ pc = "map"
    /\ consumed < Len(futures)
    /\ futures[consumed + 1].state = "done"
    /\ all_packages' = all_packages \o futures[consumed + 1].result
    /\ consumed' = consumed + 1
    /\ UNCHANGED <<pc, repos, futures, notFind>>

\* the with block ends; "No packages found!" or the sort
MapEnd ==
    /\ script = "find"
    /\ pc = "map"
    /\ consumed = Len(futures)
    /\ IF all_packages = <<>>
       THEN pc' = "none_found" /\ UNCHANGED all_packages
       ELSE pc' = "sorted" /\ all_packages' = SortByVersion(all_packages)
    /\ UNCHANGED <<repos, futures, consumed, notFind>>

InitFind ==
    /\ script = "find"
    /\ IdlePush
    /\ IdleRetag
    /\ IdleNifi
    /\ IdleExplore
    /\ IdlePull
    /\ IdlePatch
    /\ IdleProgress
    /\ disk = <<>>
    /\ args = NoArgs
    /\ exit_code = -1
    /\ images = <<>>
    /\ idx = 1
    /\ calls = NoCalls
    /\ pc = "map"
    /\ \E n \in 1..MaxMirrors :
          /\ repos \in [1..n -> RepoAnswers]
          /\ futures = [i \in 1..n |-> [state |-> "pending", result |-> <<>>, rank |-> 0]]
    /\ all_packages = <<>>
    /\ consumed = 0

NextFind ==
    \/ WorkerStart
    \/ WorkerFinish
    \/ MapNext
    \/ MapEnd

SpecFind == InitFind /\ [][NextFind]_vars

RECURSIVE KrbLinks(_, _)
\* the krb5-libs packages the index of mirror i lists, in page order
KrbLinks(links, i) ==
    IF links = <<>> THEN <<>>
    ELSE (IF Head(links) \in {HrefKrb120, HrefKrb121}
          THEN <<[name |-> Head(links), version |-> Head(links)[3], repo |-> i]>>
          ELSE <<>>) \o KrbLinks(Tail(links), i)

RECURSIVE MirrorResults(_)
\* the packages of the first n mirrors, mirror after mirror; a mirror that
\* fails has none
MirrorResults(n) ==
    IF n = 0 THEN <<>>
    ELSE MirrorResults(n - 1)
         \o (IF repos[n].ok THEN KrbLinks(repos[n].links, n) ELSE <<>>)

\* C22: the merged list is built only from scans that have completed, holds
\* exactly the packages of every mirror taken so far, and is the same
\* whatever the order in which the scans run and complete; a failed mirror
\* contributes nothing and takes nothing away.
C22_MergeIsUnionInMirrorOrder ==
    script = "find" =>
        /\ \A i \in 1..consumed : futures[i].state = "done"
        /\ pc = "map" => all_packages = MirrorResults(consumed)
        /\ pc = "sorted" => /\ SameItems(all_packages, MirrorResults(Len(repos)))
                            /\ all_packages = SortByVersion(MirrorResults(Len(repos)))
        /\ pc = "none_found" => MirrorResults(Len(repos)) = <<>>

\* two mirrors were scanned, the second scan completed first, one mirror
\* failed, and the packages of the other are the merged list
C22_Witness ==
    /\ script = "find"
    /\ pc = "sorted"
    /\ Len(repos) >= 2
    /\ futures[2].rank < futures[1].rank
    /\ \E i \in 1..Len(repos) : ~repos[i].ok
    /\ Len(all_packages) >= 2

----------------------------------------------------------------------------
\* 03_push_images_to_docdirect.py: the progress line of push_image, with the
\* clock. Time is counted in ticks of half a second.

\* the 1 of "current_time - last_update >= 1", in ticks
OneSecond == 2

\* everything the stream loop leaves alone
notProgress == <<script, dry_run, token, images, single_image, run, idx, depth,
                 log_file, lastRun, calls, runPushes, seen, history, retagVars,
                 nifiVars, exploreVars, pullVars, disk, patchVars, findVars,
                 exit_code, args>>

\* a condition that lets every status message through
IsDue_Always(current_time, last) == TRUE

\* if current_time - last_update >= 1
IsDue(current_time, last) == current_time - last >= OneSecond

\* the clock advances
Tick ==
    /\ script = "progress"
    /\ pc # "done"
    /\ now < MaxTime
    /\ now' = now + 1
    /\ UNCHANGED <<pc, locals, nChunks, start_time, last_update, status_lines,
                   stream, notProgress>>

\* start_time = time.time(), then the local image is looked up and inspected
ProgressStart ==
    /\ script = "progress"
    /\ pc = "begin"
    /\ start_time' = now
    /\ pc' = "get"
    /\ UNCHANGED <<locals, nChunks, now, last_update, status_lines, stream,
                   notProgress>>

\* response = client.images.push(...); last_update = start_time
ProgressPush ==
    /\ script = "progress"
    /\ pc = "get"
    /\ locals' = InitLocals
    /\ last_update' = start_time
    /\ pc' = "stream"
    /\ UNCHANGED <<nChunks, now, start_time, status_lines, stream, notProgress>>

\* for chunk in response: one message is accounted, and a status message
\* whose time has come prints the status line
ProgressChunk ==
    /\ script = "progress"
    /\ pc = "stream"
    /\ nChunks < MaxChunks
    /\ \E chunk \in Chunks :
          /\ locals' = ProcessChunk(chunk, locals)
          /\ stream' = Append(stream, chunk)
          /\ IF "status" \in DOMAIN chunk /\ IsDue(now, last_update)
             THEN /\ status_lines' =
                        Append(status_lines,
                               [time |-> now,
                                pushed |-> ProcessChunk(chunk, locals).pushed_layers,
                                total |-> ProcessChunk(chunk, locals).total_layers])
                  /\ last_update' = now
             ELSE UNCHANGED <<status_lines, last_update>>
    /\ nChunks' = nChunks + 1
    /\ UNCHANGED <<pc, now, start_time, notProgress>>

\* the stream ends
ProgressEnd ==
    /\ script = "progress"
    /\ pc = "stream"
    /\ pc' = "done"
    /\ UNCHANGED <<locals, nChunks, now, start_time, last_update, status_lines,
                   stream, notProgress>>

InitProgress ==
    /\ script = "progress"
    /\ token = FALSE
    /\ images = <<>>
    /\ idx = 1
    /\ calls = NoCalls
    /\ IdlePushOnly
    /\ IdleRetag
    /\ IdleNifi
    /\ IdleExplore
    /\ IdlePull
    /\ IdlePatch
    /\ IdleFind
    /\ disk = <<>>
    /\ args = NoArgs
    /\ exit_code = -1
    /\ pc = "begin"
    /\ now \in 0..1
    /\ start_time = 0
    /\ last_update = 0
    /\ status_lines = <<>>
    /\ stream = <<>>

NextProgress ==
    \/ Tick
    \/ ProgressStart
    \/ ProgressPush
    \/ ProgressChunk
    \/ ProgressEnd

SpecProgress == InitProgress /\ [][NextProgress]_vars

\* C23: two consecutive status lines of one push are at least one second
\* apart, and the first one comes no earlier than one second after the start
\* of the push (start_time, taken when push_image begins), however fast the
\* stream messages arrive.
C23_StatusLinesOneSecondApart ==
    /\ \A k \in 2..Len(status_lines) :
          status_lines[k].time - status_lines[k - 1].time >= OneSecond
    /\ status_lines # <<>> => status_lines[1].time - start_time >= OneSecond

\* two status lines were printed one after the other, the second as soon as
\* it was allowed
C23_Witness ==
    /\ script = "progress"
    /\ Len(status_lines) = 2
    /\ status_lines[2].time - status_lines[1].time = OneSecond

\* the layer ids the stream has named so far
LayersSeen ==
    {stream[k].id : k \in {j \in 1..Len(stream) : "id" \in DOMAIN stream[j]}}

\* the status of the last message about layer l
LastStatusOf(l) ==
    LET ks == {k \in 1..Len(stream) : "id" \in DOMAIN stream[k] /\ stream[k].id = l}
    IN  stream[CHOOSE k \in ks : \A j \in ks : j <= k].status

\* C24: after any prefix of the push stream, the pushed count is the number of
\* distinct layers whose last status is 'Pushed' or 'Layer already exists',
\* the total is the number of distinct layers seen, and pushed <= total.
C24_ProgressCountsDistinctLayers ==
    script = "progress" =>
        /\ locals.pushed_layers =
              Cardinality({l \in LayersSeen :
                              LastStatusOf(l) \in {"Pushed", "Layer already exists"}})
        /\ locals.total_layers = Cardinality(LayersSeen)
        /\ locals.pushed_layers <= locals.total_layers

----------------------------------------------------------------------------
\* The exit status of the push, patch and pull scripts.

InitMain == InitPush \/ InitPatch \/ InitPull

NextMain == NextPush \/ NextPatch \/ NextPull

SpecMain == InitMain /\ [][NextMain]_vars

\* no job of the run has failed so far
NoJobFailed ==
    CASE script = "push" ->
            \A k \in 1..Len(log_file) :
                log_file[k].result.msg \in {"Pushed successfully", "DRY RUN - Push simulated"}
      [] script = "patch" ->
            \A k \in 1..Len(printed) : printed[k].line # "Failed to patch"
      [] OTHER -> success /\ failed_pulls = <<>>

\* C21: a script that ends with exit code 0 has had no failed job: a push run
\* that recorded a failure, and a patch run in which patch_docker_image
\* returned False, end with exit code 1.
C21_ExitCodeZeroOnlyOnFullSuccess ==
    exit_code = 0 => NoJobFailed

----------------------------------------------------------------------------
\* The scripts that retag or push with a dry-run mode of their own.

InitDryRun == InitPush \/ InitRetag

NextDryRun == NextPush \/ NextRetag

SpecDryRun == InitDryRun /\ [][NextDryRun]_vars

\* C3: a job processed in dry-run mode makes no tag, push or removal call on
\* the Docker client and is recorded as simulated.
C3_DryRunMakesNoCalls ==
    /\ (script = "push" /\ dry_run) =>
          /\ calls["tag"] = 0 /\ calls["push"] = 0 /\ calls["remove"] = 0
          /\ \A k \in 1..Len(log_file) :
                log_file[k].result.msg = "DRY RUN - Push simulated"
    /\ (script \in {"retag", "retag_push"} /\ ~execute) =>
          /\ calls["tag"] = 0 /\ calls["push"] = 0 /\ calls["remove"] = 0
          /\ local = {Flatten(images)[k] : k \in 1..Len(Flatten(images))} \ {<<>>}
          /\ \A k \in 1..Len(printed) :
                printed[k].line \in {"[DRY-RUN] Retagging", "No matching images found locally"}

C3_Witness ==
    /\ script = "retag_push"
    /\ ~execute
    /\ remove_old
    /\ pc = "end"
    /\ \E k \in 1..Len(printed) : printed[k].line = "[DRY-RUN] Retagging"

====
